---- MODULE Spec2Model ----
(***************************************************************************)
(* Su-Chef: the step-guidance dialogue controllers of cooking_agent.py     *)
(* (CookingAgent), intelligent_agent.py (IntelligentCookingAgent) and      *)
(* su_chef_clean.py (VoiceAgent).                                          *)
(*                                                                         *)
(* Text is modelled as Python handles it: a str is a sequence of           *)
(* one-character strings, so that strip(), upper(), lower() and the        *)
(* substring test "w in s" are computed, not assumed.                      *)
(***************************************************************************)
EXTENDS Integers, Sequences, FiniteSets, TLC

(* ------------------------------ bounds -------------------------------- *)

\* interactions recorded by learn_from_interaction explored per session
MaxQuestions == 2
\* entries of cooking_context["questions_asked"] explored per session
MaxLog == 2
\* calls of learn_from_interaction explored when it is studied by itself
MaxLearn == 3
\* NAVIGATION, detailed and REPEAT interactions counted in a user model whose
\* pace is recomputed
MaxNavigations == 4
MaxDetailed == 6
MaxRepeats == 3
\* turns recorded before a context is built
MaxTurns == 4
\* turns recorded in a session whose history is watched
MaxHistory == 6
\* calls of load_recipe on one agent
MaxLoads == 2
\* recipes saved in one database, and the seconds its clock runs
MaxSaves == 2
MaxSeconds == 1
\* guided sessions started from one application
MaxSessions == 2

(* ------------------------------- text --------------------------------- *)

UpperCase == <<"A","B","C","D","E","F","G","H","I","J","K","L","M",
               "N","O","P","Q","R","S","T","U","V","W","X","Y","Z">>
LowerCase == <<"a","b","c","d","e","f","g","h","i","j","k","l","m",
               "n","o","p","q","r","s","t","u","v","w","x","y","z">>
Whitespace == {" ", "\t", "\n", "\r"}

upper_char(c) ==
    IF \E i \in DOMAIN LowerCase : LowerCase[i] = c
    THEN UpperCase[CHOOSE i \in DOMAIN LowerCase : LowerCase[i] = c]
    ELSE c

lower_char(c) ==
    IF \E i \in DOMAIN UpperCase : UpperCase[i] = c
    THEN LowerCase[CHOOSE i \in DOMAIN UpperCase : UpperCase[i] = c]
    ELSE c

\* s.upper()
str_upper(s) == [i \in 1..Len(s) |-> upper_char(s[i])]

\* s.lower()
str_lower(s) == [i \in 1..Len(s) |-> lower_char(s[i])]

\* s.strip()
str_strip(s) ==
    LET keep == {i \in 1..Len(s) : s[i] \notin Whitespace}
    IN  IF keep = {} THEN <<>>
        ELSE SubSeq(s, CHOOSE i \in keep : \A j \in keep : i <= j,
                       CHOOSE i \in keep : \A j \in keep : j <= i)

\* w in s   (substring test of two str)
str_in(w, s) ==
    \E i \in 1..(Len(s) - Len(w) + 1) : SubSeq(s, i, i + Len(w) - 1) = w

\* any(word in s for word in words)
any_in(words, s) == \E w \in words : str_in(w, s)

\* None, and the falsy test "not x" of an Optional[str]: None and "" are both
\* falsy and the controllers test these values for truthiness only, so both are
\* the empty sequence here.
None == <<>>
falsy(x) == x = None

(* --------------------------- intent labels ---------------------------- *)

NAVIGATION      == <<"N","A","V","I","G","A","T","I","O","N">>
CLARIFICATION   == <<"C","L","A","R","I","F","I","C","A","T","I","O","N">>
TIMING          == <<"T","I","M","I","N","G">>
SUBSTITUTION    == <<"S","U","B","S","T","I","T","U","T","I","O","N">>
TECHNIQUE       == <<"T","E","C","H","N","I","Q","U","E">>
TROUBLESHOOTING == <<"T","R","O","U","B","L","E","S","H","O","O","T","I","N","G">>
REPEAT          == <<"R","E","P","E","A","T">>
INGREDIENTS     == <<"I","N","G","R","E","D","I","E","N","T","S">>
STOP            == <<"S","T","O","P">>
QUESTION        == <<"Q","U","E","S","T","I","O","N">>
\* labels the code also names, outside the ten of the classification prompt
EQUIPMENT        == <<"E","Q","U","I","P","M","E","N","T">>
GENERAL_QUESTION == <<"G","E","N","E","R","A","L","_","Q","U","E","S","T","I","O","N">>

\* the ten intents the classification prompt of CookingAgent lists
IntentLabels ==
    {NAVIGATION, CLARIFICATION, TIMING, SUBSTITUTION, TECHNIQUE,
     TROUBLESHOOTING, REPEAT, INGREDIENTS, STOP, QUESTION}

\* the intents get_ai_response acts on without a completion call
DirectIntents == {NAVIGATION, REPEAT, STOP, INGREDIENTS}

(* ------------------------------ recipes ------------------------------- *)

Toast ==
    [name |-> <<"T","o","a","s","t">>,
     steps |-> << <<"P","u","t"," ","b","r","e","a","d"," ","i","n"," ","t","o","a","s","t","e","r">>, <<"W","a","i","t"," ","3"," ","m","i","n","u","t","e","s">> >>,
     ingredients |-> << <<"b","r","e","a","d">> >>]

Pancakes ==
    [name |-> <<"P","a","n","c","a","k","e","s">>,
     steps |-> << <<"M","i","x"," ","t","h","e"," ","b","a","t","t","e","r">>, <<"H","e","a","t"," ","t","h","e"," ","p","a","n">>, <<"F","r","y"," ","a","n","d"," ","s","e","r","v","e">> >>,
     ingredients |-> << <<"f","l","o","u","r">>, <<"m","i","l","k">> >>]

Nothing ==
    [name |-> <<"U","n","k","n","o","w","n"," ","R","e","c","i","p","e">>, steps |-> << >>, ingredients |-> << >>]

\* the recipe files a session may be started on
Recipes == {Toast, Pancakes, Nothing}

(* ------------------------- the user's entries -------------------------- *)

\* what the recognizer may report as result.text during a session
Spoken == { <<"N","e","x","t",".">>, <<" ">> }

\* what the user may type at an input() prompt during a session
Typed == { <<"n","e","x","t">>, <<"s","t","o","p">>, <<" "," ">> }

SpeechResults ==
    [reason : {"RecognizedSpeech"}, text : Spoken]
        \cup {[reason |-> "NoMatch"], [reason |-> "Exception"]}

PromptResults ==
    [kind : {"text"}, text : Typed] \cup {[kind |-> "KeyboardInterrupt"]}

NotPrompted == [kind |-> "not_prompted"]

\* the utterances classify_intent is studied on by itself
Utterances ==
    { <<"n","e","x","t">>, <<"C","o","n","t","i","n","u","e"," ","p","l","e","a","s","e">>, <<"r","e","p","e","a","t"," ","t","h","a","t">>, <<"s","a","y"," ","i","t"," ","a","g","a","i","n">>,
      <<"s","t","o","p">>, <<"Q","U","I","T">>, <<"t","h","e"," ","e","n","d">>, <<"b","l","e","n","d"," ","i","t">>, <<"h","e","l","l","o">>,
      <<"w","h","a","t"," ","t","e","m","p","e","r","a","t","u","r","e"," ","s","h","o","u","l","d"," ","t","h","e"," ","o","v","e","n"," ","b","e">> }

(* ---------------------- the completion service ------------------------ *)

\* chat.completions.create on a classification request of CookingAgent may
\* raise, answer without content, or answer with a text
ClassifyTexts ==
    IntentLabels \cup
    { <<" ","n","a","v","i","g","a","t","i","o","n","\n">>, <<"S","t","o","p",".">>, <<"E","Q","U","I","P","M","E","N","T">>,
      <<"T","h","e"," ","i","n","t","e","n","t"," ","i","s"," ","N","A","V","I","G","A","T","I","O","N">> }

ClassifyReplies ==
    [kind : {"content"}, text : ClassifyTexts]
        \cup {[kind |-> "raise"], [kind |-> "no_content"]}

\* the replies explored within a session
SessionReplies ==
    [kind : {"content"},
     text : {NAVIGATION, REPEAT, STOP, INGREDIENTS, TIMING, CLARIFICATION}]
        \cup {[kind |-> "raise"]}

\* on the request that answers a question
AnswerText == <<" ","A","b","o","u","t"," ","3"," ","m","i","n","u","t","e","s",".","\n">>

AnswerReplies ==
    {[kind |-> "content", text |-> AnswerText],
     [kind |-> "raise"], [kind |-> "no_content"]}

NotCalled == [kind |-> "not_called"]

(* ----------------------------- messages ------------------------------- *)

RecipeCompletedMsg == <<"P","e","r","f","e","c","t","!"," ","R","e","c","i","p","e"," ","c","o","m","p","l","e","t","e","d","!"," ","G","r","e","a","t"," ","j","o","b"," ","c","o","o","k","i","n","g","!">>
TemperatureMsg ==
    <<"M","o","v","i","n","g"," ","t","o"," ","n","e","x","t"," ","s","t","e","p","."," ","T","h","i","s"," ","i","n","v","o","l","v","e","s"," ","t","e","m","p","e","r","a","t","u","r","e"," ","c","o","n","t","r","o","l"," ","-"," ","b","e"," ","c","a","r","e","f","u","l","!">>
TroubleMsg ==
    <<"I","'","m"," ","h","a","v","i","n","g"," ","t","r","o","u","b","l","e"," ","w","i","t","h"," ","t","h","a","t"," ","q","u","e","s","t","i","o","n","."," ","C","o","u","l","d"," ","y","o","u"," ","t","r","y"," ","r","e","p","h","r","a","s","i","n","g"," ","i","t","?">>
ProcessingTroubleMsg ==
    <<"I","'","m"," ","h","a","v","i","n","g"," ","t","r","o","u","b","l","e"," ","p","r","o","c","e","s","s","i","n","g"," ","t","h","a","t","."," ","C","o","u","l","d"," ","y","o","u"," ","r","e","p","h","r","a","s","e"," ","y","o","u","r"," ","q","u","e","s","t","i","o","n","?">>
SayNextSuffix ==
    <<" ","S","a","y"," ","'","N","e","x","t","'"," ","t","o"," ","c","o","n","t","i","n","u","e"," ","c","o","o","k","i","n","g",","," ","o","r"," ","a","s","k"," ","a","n","o","t","h","e","r"," ","q","u","e","s","t","i","o","n"," ","i","f"," ","y","o","u","'","r","e"," ","s","t","i","l","l"," ","u","n","s","u","r","e",".">>

(* ------------------------------- state -------------------------------- *)

VARIABLES
    agent,               \* the class of the agent object
    pc,                  \* position of run()
    recipe_steps,        \* self.recipe_steps
    recipe_ingredients,  \* self.recipe_ingredients
    recipe_name,         \* self.recipe_name
    current_step,        \* self.current_step
    is_interrupted,      \* self.is_interrupted
    is_completed,        \* self.is_completed
    user_model,          \* self.user_model
    cooking_context,     \* self.cooking_context (IntelligentCookingAgent)
    step_spoken,         \* run(): step_spoken
    announced_step,      \* index of the step whose text was last spoken
    user_input,          \* run(): user_input
    intent_data,         \* run(): intent_data
    ai_intent_data,      \* get_ai_response(): intent_data
    response,            \* run(): response
    all_done_spoken,     \* run(): the closing announcement was spoken
    pre,                 \* the session state when the current turn began
    turn,                \* what happened in the current turn
    voice,               \* VoiceAgent.run_voice_guidance(): its locals
    script,              \* the utterances a scripted user has yet to say
    files,               \* the JSON files on disk, by name
    database,            \* the tables of the RecipeDatabase
    saved,               \* the recipes handed to save_recipe, by returned id
    result               \* the call that is studied by itself, and its result

vars == <<agent, pc, recipe_steps, recipe_ingredients, recipe_name,
          current_step, is_interrupted, is_completed, user_model,
          cooking_context, step_spoken, announced_step, user_input,
          intent_data, ai_intent_data, response, all_done_spoken, pre, turn,
          voice, script, files, database, saved, result>>

\* what the sessions of the agents leave alone
NoCall == [op |-> "none"]
NoFiles == << >>
NoDatabase == [recipes |-> << >>, steps |-> {}]

(* ------------------- CookingAgent: the user model ---------------------- *)

\* a dict is a function on its keys; {} has no key
dict_get(d, k, default) == IF k \in DOMAIN d THEN d[k] ELSE default

\* d[k] += 1 if k in d, else d[k] = 1
dict_count(d, k) ==
    [x \in DOMAIN d \cup {k} |-> IF x = k THEN dict_get(d, k, 0) + 1 ELSE d[x]]

RECURSIVE sum_keys(_, _)
sum_keys(d, ks) ==
    IF ks = {} THEN 0
    ELSE LET k == CHOOSE x \in ks : TRUE
         IN  d[k] + sum_keys(d, ks \ {k})

\* sum(d.values())
dict_sum(d) == sum_keys(d, DOMAIN d)

\* self.user_model as __init__ leaves it.  session_questions and
\* common_confusions keep, of each entry, the fields the code reads back
\* (intent, step, step_text, timestamp); the copies of the utterance and of the
\* response text that an entry also stores are never read and are left out.
InitUserModel ==
    [cooking_pace |-> "normal",
     question_patterns |-> << >>,
     confusion_count |-> 0,
     session_questions |-> << >>,
     preferences |-> << >>,
     skill_indicators |->
        [technique_questions |-> 0, timing_questions |-> 0,
         troubleshooting_questions |-> 0, equipment_questions |-> 0],
     interaction_patterns |->
        [quick_navigation |-> 0, detailed_questions |-> 0,
         repeat_requests |-> 0],
     step_timing |-> << >>,
     common_confusions |-> << >>]

\* self.recipe_steps[i]  (Python indexes from 0)
step_at(steps, i) == steps[i + 1]

\* sum(self.user_model["skill_indicators"].values())
total_skill_questions(um) ==
    um.skill_indicators.technique_questions
    + um.skill_indicators.timing_questions
    + um.skill_indicators.troubleshooting_questions
    + um.skill_indicators.equipment_questions

skill_level(um) ==
    IF total_skill_questions(um) > 8 THEN "beginner"
    ELSE IF total_skill_questions(um) > 3 THEN "intermediate"
    ELSE "experienced"

\* _update_cooking_pace judging the pace from the second interaction on
_update_cooking_pace_early(um) ==
    LET navigation_count == dict_get(um.question_patterns, NAVIGATION, 0)
        total_questions == dict_sum(um.question_patterns)
        detailed_questions == um.interaction_patterns.detailed_questions
        repeat_requests == um.interaction_patterns.repeat_requests
    IN  IF total_questions > 1
        THEN IF 10 * navigation_count > 6 * total_questions
                /\ detailed_questions < 3
             THEN [um EXCEPT !.cooking_pace = "fast"]
             ELSE IF \/ 10 * navigation_count < 4 * total_questions
                     \/ detailed_questions > 5
                     \/ repeat_requests > 2
                  THEN [um EXCEPT !.cooking_pace = "slow"]
                  ELSE [um EXCEPT !.cooking_pace = "normal"]
        ELSE um

\* navigation_count / total_questions compared with 0.6 and 0.4, in tenths
_update_cooking_pace(um) ==
    LET navigation_count == dict_get(um.question_patterns, NAVIGATION, 0)
        total_questions == dict_sum(um.question_patterns)
        detailed_questions == um.interaction_patterns.detailed_questions
        repeat_requests == um.interaction_patterns.repeat_requests
    IN  IF total_questions > 3
        THEN IF 10 * navigation_count > 6 * total_questions
                /\ detailed_questions < 3
             THEN [um EXCEPT !.cooking_pace = "fast"]
             ELSE IF \/ 10 * navigation_count < 4 * total_questions
                     \/ detailed_questions > 5
                     \/ repeat_requests > 2
                  THEN [um EXCEPT !.cooking_pace = "slow"]
                  ELSE [um EXCEPT !.cooking_pace = "normal"]
        ELSE um

\* learn_from_interaction with the intents in confusing counted as confusion
\* and, when restart holds, REPEAT setting confusion_count to 1
learn_changed(um, intent, cs, steps, confusing, restart) ==
    LET um1 == [um EXCEPT !.question_patterns = dict_count(@, intent)]
        um2 == IF intent \in confusing
               THEN [um1 EXCEPT
                       !.confusion_count =
                           IF restart /\ intent = REPEAT THEN 1 ELSE @ + 1,
                       !.common_confusions =
                           IF intent = CLARIFICATION
                           THEN Append(@, [step |-> cs,
                                           step_text |->
                                              IF cs < Len(steps)
                                              THEN step_at(steps, cs)
                                              ELSE << >>])
                           ELSE @]
               ELSE um1
        um3 == IF intent = TECHNIQUE
               THEN [um2 EXCEPT !.skill_indicators.technique_questions = @ + 1]
               ELSE IF intent = TIMING
               THEN [um2 EXCEPT !.skill_indicators.timing_questions = @ + 1]
               ELSE IF intent = TROUBLESHOOTING
               THEN [um2 EXCEPT
                       !.skill_indicators.troubleshooting_questions = @ + 1]
               ELSE IF intent = EQUIPMENT
               THEN [um2 EXCEPT !.skill_indicators.equipment_questions = @ + 1]
               ELSE um2
        um4 == IF intent = NAVIGATION
               THEN _update_cooking_pace(
                      [um3 EXCEPT !.interaction_patterns.quick_navigation = @ + 1])
               ELSE IF intent = REPEAT
               THEN [um3 EXCEPT !.interaction_patterns.repeat_requests = @ + 1]
               ELSE IF intent \in {CLARIFICATION, TECHNIQUE, TIMING,
                                   TROUBLESHOOTING}
               THEN [um3 EXCEPT
                       !.interaction_patterns.detailed_questions = @ + 1]
               ELSE um3
    IN  [um4 EXCEPT !.session_questions =
            Append(@, [intent |-> intent, step |-> cs, timestamp |-> Len(@)])]

\* learn_from_interaction counting a TIMING question as confusion
learn_from_interaction_timing_confuses(um, intent, cs, steps) ==
    learn_changed(um, intent, cs, steps,
                  {CLARIFICATION, REPEAT, TROUBLESHOOTING, TIMING}, FALSE)

\* learn_from_interaction restarting confusion_count on REPEAT
learn_from_interaction_repeat_restarts(um, intent, cs, steps) ==
    learn_changed(um, intent, cs, steps,
                  {CLARIFICATION, REPEAT, TROUBLESHOOTING}, TRUE)

learn_from_interaction(um, intent, cs, steps) ==
    LET um1 == [um EXCEPT !.question_patterns = dict_count(@, intent)]
        um2 == IF intent \in {CLARIFICATION, REPEAT, TROUBLESHOOTING}
               THEN [um1 EXCEPT
                       !.confusion_count = @ + 1,
                       !.common_confusions =
                           IF intent = CLARIFICATION
                           THEN Append(@, [step |-> cs,
                                           step_text |->
                                              IF cs < Len(steps)
                                              THEN step_at(steps, cs)
                                              ELSE << >>])
                           ELSE @]
               ELSE um1
        um3 == IF intent = TECHNIQUE
               THEN [um2 EXCEPT !.skill_indicators.technique_questions = @ + 1]
               ELSE IF intent = TIMING
               THEN [um2 EXCEPT !.skill_indicators.timing_questions = @ + 1]
               ELSE IF intent = TROUBLESHOOTING
               THEN [um2 EXCEPT
                       !.skill_indicators.troubleshooting_questions = @ + 1]
               ELSE IF intent = EQUIPMENT
               THEN [um2 EXCEPT !.skill_indicators.equipment_questions = @ + 1]
               ELSE um2
        um4 == IF intent = NAVIGATION
               THEN _update_cooking_pace(
                      [um3 EXCEPT !.interaction_patterns.quick_navigation = @ + 1])
               ELSE IF intent = REPEAT
               THEN [um3 EXCEPT !.interaction_patterns.repeat_requests = @ + 1]
               ELSE IF intent \in {CLARIFICATION, TECHNIQUE, TIMING,
                                   TROUBLESHOOTING}
               THEN [um3 EXCEPT
                       !.interaction_patterns.detailed_questions = @ + 1]
               ELSE um3
    IN  [um4 EXCEPT !.session_questions =
            Append(@, [intent |-> intent, step |-> cs, timestamp |-> Len(@)])]

\* get_personalized_response putting its remark for a slow cook in place of
\* the answer
get_personalized_response_bare(um, base_response, intent) ==
    IF um.cooking_pace = "slow"
    THEN <<"N","o"," ","r","u","s","h",","," ","c","a","r","e","f","u","l"," ","c","o","o","k","i","n","g"," ","i","s"," ","g","o","o","d"," ","c","o","o","k","i","n","g",".">>
    ELSE base_response

get_personalized_response(um, base_response, intent) ==
    IF um.cooking_pace = "slow"
    THEN IF skill_level(um) = "beginner"
         THEN base_response \o <<" ","T","a","k","e"," ","y","o","u","r"," ","t","i","m","e"," ","-"," ","y","o","u","'","r","e"," ","l","e","a","r","n","i","n","g"," ","g","r","e","a","t","!">>
         ELSE base_response \o <<" ","N","o"," ","r","u","s","h",","," ","c","a","r","e","f","u","l"," ","c","o","o","k","i","n","g"," ","i","s"," ","g","o","o","d"," ","c","o","o","k","i","n","g",".">>
    ELSE IF um.cooking_pace = "fast"
    THEN IF intent = NAVIGATION
         THEN base_response \o <<" ","G","r","e","a","t"," ","p","a","c","e","!"," ","Y","o","u","'","r","e"," ","c","o","o","k","i","n","g"," ","c","o","n","f","i","d","e","n","t","l","y",".">>
         ELSE base_response \o <<" ","Y","o","u","'","r","e"," ","m","o","v","i","n","g"," ","f","a","s","t"," ","-"," ","d","o","u","b","l","e","-","c","h","e","c","k"," ","t","h","i","s"," ","s","t","e","p",".">>
    ELSE IF um.confusion_count > 3
    THEN IF intent \in {TECHNIQUE, CLARIFICATION}
         THEN base_response \o <<" ","I","'","l","l"," ","e","x","p","l","a","i","n"," ","m","o","r","e"," ","c","l","e","a","r","l","y"," ","n","e","x","t"," ","t","i","m","e",".">>
         ELSE base_response \o <<" ","L","e","t"," ","m","e"," ","k","n","o","w"," ","i","f"," ","a","n","y","t","h","i","n","g"," ","i","s"," ","u","n","c","l","e","a","r",".">>
    ELSE IF um.interaction_patterns.repeat_requests > 2
    THEN base_response \o <<" ","I","'","l","l"," ","s","p","e","a","k"," ","m","o","r","e"," ","c","l","e","a","r","l","y",".">>
    ELSE IF skill_level(um) = "beginner" /\ intent \in {TECHNIQUE, EQUIPMENT}
    THEN base_response \o <<" ","D","o","n","'","t"," ","w","o","r","r","y",","," ","e","v","e","r","y","o","n","e"," ","l","e","a","r","n","s"," ","t","h","e","s","e"," ","b","a","s","i","c","s","!">>
    ELSE IF skill_level(um) = "experienced" /\ intent = TECHNIQUE
    THEN base_response \o <<" ","Y","o","u"," ","p","r","o","b","a","b","l","y"," ","k","n","o","w"," ","t","h","i","s",","," ","b","u","t"," ","j","u","s","t"," ","t","o"," ","c","o","n","f","i","r","m",".">>
    ELSE base_response

(* ---------------- CookingAgent: intent classification ------------------ *)

\* the except branch of classify_intent: keyword matching on the lowered input
\* (confidence in tenths)
keyword_fallback(input) ==
    LET user_lower == str_lower(input)
    IN  IF any_in({ <<"n","e","x","t">>, <<"c","o","n","t","i","n","u","e">> }, user_lower)
        THEN [intent |-> NAVIGATION, confidence |-> 7]
        ELSE IF any_in({ <<"r","e","p","e","a","t">>, <<"a","g","a","i","n">> }, user_lower)
        THEN [intent |-> REPEAT, confidence |-> 7]
        ELSE [intent |-> QUESTION, confidence |-> 5]

\* classify_intent: the reply's content, stripped and upper-cased, is the
\* intent; a raise (or a reply without content, whose .strip() raises) is caught
\* and answered by the keyword fallback
classify_intent(input, reply) ==
    IF reply.kind = "content"
    THEN [intent |-> str_upper(str_strip(reply.text)), confidence |-> 9]
    ELSE keyword_fallback(input)

(* ------------------- CookingAgent: get_ai_response --------------------- *)

\* the part of the object's state a turn may change
Session ==
    [current_step |-> current_step,
     is_interrupted |-> is_interrupted,
     is_completed |-> is_completed,
     user_model |-> user_model,
     cooking_context |-> cooking_context]

\* "heat" in next_step or "temperature" in next_step
needs_temperature_care(step_text) ==
    any_in({ <<"h","e","a","t">>, <<"t","e","m","p","e","r","a","t","u","r","e">> }, str_lower(step_text))

\* handle_navigation with the step index moved the wrong way
handle_navigation_backwards(s, steps) ==
    IF s.current_step >= Len(steps) - 1
    THEN [session |-> [s EXCEPT !.is_completed = TRUE, !.is_interrupted = TRUE],
          response |-> RecipeCompletedMsg]
    ELSE [session |-> [s EXCEPT !.current_step = @ - 1], response |-> None]

\* handle_navigation with the final-step test off by one (> for >=)
handle_navigation_late(s, steps) ==
    IF s.current_step > Len(steps) - 1
    THEN [session |-> [s EXCEPT !.is_completed = TRUE, !.is_interrupted = TRUE],
          response |-> RecipeCompletedMsg]
    ELSE [session |-> [s EXCEPT !.current_step = @ + 1], response |-> None]

\* handle_navigation with the final-step test one step early
handle_navigation_early(s, steps) ==
    IF s.current_step >= Len(steps) - 2
    THEN [session |-> [s EXCEPT !.is_completed = TRUE, !.is_interrupted = TRUE],
          response |-> RecipeCompletedMsg]
    ELSE [session |-> [s EXCEPT !.current_step = @ + 1], response |-> None]

\* the NAVIGATION branch: the session after it and the response
handle_navigation(s, steps) ==
    IF s.current_step >= Len(steps) - 1
    THEN [session |-> [s EXCEPT !.is_completed = TRUE, !.is_interrupted = TRUE],
          response |-> RecipeCompletedMsg]
    ELSE LET next == s.current_step + 1
         IN  [session |-> [s EXCEPT !.current_step = next],
              response |->
                 IF next < Len(steps)
                    /\ needs_temperature_care(step_at(steps, next))
                 THEN TemperatureMsg
                 ELSE None]

\* handle_repeat going back to the first step
handle_repeat_restarts(s) ==
    [session |-> [s EXCEPT !.current_step = 0], response |-> None]

\* handle_repeat counting the request in the user model
handle_repeat_counts(s) ==
    [session |->
        [s EXCEPT !.user_model.interaction_patterns.repeat_requests = @ + 1],
     response |-> None]

\* the REPEAT branch: the step is spoken again
handle_repeat(s) == [session |-> s, response |-> None]

\* handle_stop setting the wrong flag
handle_stop_completes(s) ==
    [session |-> [s EXCEPT !.is_completed = TRUE], response |-> None]

\* the STOP branch
handle_stop(s) ==
    [session |-> [s EXCEPT !.is_interrupted = TRUE], response |-> None]

\* the INGREDIENTS branch: speak_ingredients() speaks and changes nothing
handle_ingredients(s) == [session |-> s, response |-> None]

\* answer_question recording the interaction twice
answer_question_learns_twice(s, intent, steps, areply) ==
    IF areply.kind = "content"
    THEN LET once == learn_from_interaction(s.user_model, intent,
                                            s.current_step, steps)
         IN  [session |->
                 [s EXCEPT !.user_model =
                     learn_from_interaction(once, intent,
                                            s.current_step, steps)],
              response |->
                 get_personalized_response(s.user_model,
                                           str_strip(areply.text), intent)
                 \o SayNextSuffix]
    ELSE [session |-> s, response |-> TroubleMsg]

\* answer_question recording the interaction before the completion call
answer_question_learns_first(s, intent, steps, areply) ==
    LET learned == learn_from_interaction(s.user_model, intent,
                                          s.current_step, steps)
    IN  IF areply.kind = "content"
        THEN [session |-> [s EXCEPT !.user_model = learned],
              response |->
                 get_personalized_response(s.user_model,
                                           str_strip(areply.text), intent)
                 \o SayNextSuffix]
        ELSE [session |-> [s EXCEPT !.user_model = learned],
              response |-> TroubleMsg]

\* Step 3, the try block: the completion call, then personalization, learning
\* and the suffix; any exception gives the fixed message
answer_question(s, intent, steps, areply) ==
    IF areply.kind = "content"
    THEN LET base_response == str_strip(areply.text)
             personalized_response ==
                 get_personalized_response(s.user_model, base_response, intent)
             learned ==
                 learn_from_interaction(s.user_model, intent,
                                        s.current_step, steps)
         IN  [session |-> [s EXCEPT !.user_model = learned],
              response |->
                 IF intent \notin DirectIntents
                 THEN personalized_response \o SayNextSuffix
                 ELSE personalized_response]
    ELSE [session |-> s, response |-> TroubleMsg]

\* the REPEAT branch speaks the text of the current step
speaks_step(s, intent, steps) ==
    intent = REPEAT /\ s.current_step < Len(steps)

\* get_ai_response after its classification
get_ai_response(s, intent, steps, areply) ==
    IF intent = NAVIGATION THEN handle_navigation(s, steps)
    ELSE IF intent = REPEAT THEN handle_repeat(s)
    ELSE IF intent = STOP THEN handle_stop(s)
    ELSE IF intent = INGREDIENTS THEN handle_ingredients(s)
    ELSE answer_question(s, intent, steps, areply)

\* the loop test without the interruption flag
loop_condition_steps_only(s, steps) == s.current_step < Len(steps)

\* while not self.is_interrupted and self.current_step < len(self.recipe_steps)
loop_condition(s, steps) ==
    ~s.is_interrupted /\ s.current_step < Len(steps)

(* ---------------------- CookingAgent: run() ---------------------------- *)

NoIntentData == [intent |-> None, confidence |-> 0]

NewTurn ==
    [empty_input |-> FALSE, classified |-> 0, fallback |-> FALSE,
     handled |-> FALSE, answer |-> "none"]

\* listen(): the recognized text stripped; None when nothing was recognized;
\* on an exception of the recognizer the typed command, if any
listen(sr, typed) ==
    IF sr.reason = "RecognizedSpeech" THEN str_strip(sr.text)
    ELSE IF sr.reason = "Exception" /\ typed.kind = "text"
            /\ ~falsy(str_strip(typed.text))
    THEN str_strip(typed.text)
    ELSE None

\* input("> ").strip() or "next"
prompt_or_next(typed) ==
    IF falsy(str_strip(typed.text)) THEN <<"n","e","x","t">> ELSE str_strip(typed.text)

\* the user's last entry of the turn was empty or only whitespace
entered_nothing(sr, typed1, typed2) ==
    IF typed2.kind = "text" THEN falsy(str_strip(typed2.text))
    ELSE IF typed2.kind = "KeyboardInterrupt" THEN FALSE
    ELSE IF sr.reason = "RecognizedSpeech" THEN falsy(str_strip(sr.text))
    ELSE typed1.kind = "text" /\ falsy(str_strip(typed1.text))

SetSession(s) ==
    /\ current_step' = s.current_step
    /\ is_interrupted' = s.is_interrupted
    /\ is_completed' = s.is_completed
    /\ user_model' = s.user_model
    /\ cooking_context' = s.cooking_context

\* the lines after the loop
AfterLoop == all_done_spoken' = ~is_interrupted

\* the locals of a turn are dead once the loop test is reached again
ForgetTurn ==
    /\ user_input' = None
    /\ intent_data' = NoIntentData
    /\ ai_intent_data' = NoIntentData
    /\ response' = None
    /\ pre' = Session
    /\ turn' = NewTurn

\* load_recipe() succeeded; the greeting is spoken
Run ==
    /\ agent = "CookingAgent"
    /\ pc = "new"
    /\ \E r \in Recipes :
         /\ recipe_steps' = r.steps
         /\ recipe_ingredients' = r.ingredients
         /\ recipe_name' = r.name
    /\ step_spoken' = FALSE
    /\ pc' = "top"
    /\ UNCHANGED <<agent, announced_step, current_step, is_interrupted, is_completed,
                   user_model, cooking_context, user_input, intent_data,
                   ai_intent_data, response, all_done_spoken, pre, turn>>
    /\ UNCHANGED <<voice, script>>
    /\ UNCHANGED <<files, database, saved, result>>

\* the loop test; the step is spoken if it was not yet; after the loop the
\* closing announcement
LoopTop ==
    /\ agent = "CookingAgent"
    /\ pc = "top"
    /\ IF loop_condition(Session, recipe_steps)
       THEN /\ step_spoken' = TRUE
            /\ announced_step' =
                  IF step_spoken THEN announced_step ELSE current_step
            /\ pc' = "listen"
            /\ ForgetTurn
            /\ UNCHANGED all_done_spoken
       ELSE /\ AfterLoop
            /\ pc' = "done"
            /\ UNCHANGED <<step_spoken, announced_step, user_input,
                           intent_data, ai_intent_data, response, pre, turn>>
    /\ UNCHANGED <<agent, recipe_steps, recipe_ingredients, recipe_name,
                   current_step, is_interrupted, is_completed, user_model,
                   cooking_context>>
    /\ UNCHANGED <<voice, script>>
    /\ UNCHANGED <<files, database, saved, result>>

\* user_input = self.listen(), and the typed fallback when that is falsy
Listen ==
    /\ agent = "CookingAgent"
    /\ pc = "listen"
    /\ \E sr \in SpeechResults :
       \E typed1 \in (IF sr.reason = "Exception"
                      THEN PromptResults ELSE {NotPrompted}) :
       \E typed2 \in (IF falsy(listen(sr, typed1))
                      THEN PromptResults ELSE {NotPrompted}) :
         /\ turn' = [NewTurn EXCEPT
                       !.empty_input = entered_nothing(sr, typed1, typed2)]
         /\ IF typed2.kind = "KeyboardInterrupt"
            THEN /\ AfterLoop
                 /\ pc' = "done"
                 /\ user_input' = None
            ELSE /\ user_input' = IF typed2.kind = "text"
                                  THEN prompt_or_next(typed2)
                                  ELSE listen(sr, typed1)
                 /\ pc' = "classify"
                 /\ UNCHANGED all_done_spoken
    /\ UNCHANGED <<agent, recipe_steps, recipe_ingredients, recipe_name,
                   current_step, is_interrupted, is_completed, user_model,
                   cooking_context, step_spoken, announced_step, intent_data, ai_intent_data,
                   response, pre>>
    /\ UNCHANGED <<voice, script>>
    /\ UNCHANGED <<files, database, saved, result>>

\* intent_data = self.classify_intent(user_input), in run()
ClassifyInRun ==
    /\ agent = "CookingAgent"
    /\ pc = "classify"
    /\ \E reply \in SessionReplies :
         intent_data' = classify_intent(user_input, reply)
    /\ turn' = [turn EXCEPT !.classified = @ + 1]
    /\ pc' = "respond"
    /\ UNCHANGED <<agent, recipe_steps, recipe_ingredients, recipe_name,
                   current_step, is_interrupted, is_completed, user_model,
                   cooking_context, step_spoken, announced_step, user_input, ai_intent_data,
                   response, all_done_spoken, pre>>
    /\ UNCHANGED <<voice, script>>
    /\ UNCHANGED <<files, database, saved, result>>

\* get_ai_response(user_input) when the classification request inside it is
\* answered by reply: the second classification, the handler, and what the
\* loop body does with the response
RespondOn(reply) ==
    LET data == classify_intent(user_input, reply)
    IN  /\ ai_intent_data' = data
        /\ \E areply \in (IF data.intent \in DirectIntents
                          THEN {NotCalled} ELSE AnswerReplies) :
             LET out == get_ai_response(Session, data.intent,
                                        recipe_steps, areply)
             IN  /\ Len(out.session.user_model.session_questions)
                       <= MaxQuestions
                 /\ SetSession(out.session)
                 /\ response' = out.response
                 /\ turn' = [turn EXCEPT
                               !.classified = @ + 1,
                               !.fallback = reply.kind # "content",
                               !.handled = TRUE,
                               !.answer =
                                  IF areply = NotCalled THEN "none"
                                  ELSE IF areply.kind = "content"
                                  THEN "ok" ELSE "failed"]
                 /\ announced_step' =
                       IF speaks_step(Session, data.intent, recipe_steps)
                       THEN current_step ELSE announced_step
                 /\ step_spoken' =
                       IF falsy(out.response)
                          /\ intent_data.intent # REPEAT
                       THEN FALSE ELSE step_spoken

\* response = self.get_ai_response(user_input), and the lines of run() that
\* follow it in the loop body
GetAiResponse ==
    /\ agent = "CookingAgent"
    /\ pc = "respond"
    /\ \E reply \in SessionReplies : RespondOn(reply)
    /\ pc' = "top"
    /\ user_input' = None
    /\ intent_data' = NoIntentData
    /\ UNCHANGED <<agent, recipe_steps, recipe_ingredients, recipe_name,
                   all_done_spoken, pre>>
    /\ UNCHANGED <<voice, script>>
    /\ UNCHANGED <<files, database, saved, result>>

(* ------------- IntelligentCookingAgent: classification ----------------- *)

\* message.content of a classification reply, as json.loads sees it: a text
\* that is no JSON document, or a document with its value.  A dict is a record
\* of its keys; a document that is no dict with an "intent" key (a list, a bare
\* string, a dict without the key) has no field intent.
NotJson == [valid |-> FALSE]

JsonIntent(label, entities) ==
    [valid |-> TRUE,
     value |-> [intent |-> label, confidence |-> 9, entities |-> entities]]

JsonNoIntent == [valid |-> TRUE, value |-> [confidence |-> 9]]

IClassifyReplies ==
    [kind : {"content"},
     json : {JsonIntent(l, {}) : l \in IntentLabels \cup {GENERAL_QUESTION}}
            \cup {JsonIntent(NAVIGATION, {"next"}),
                  JsonIntent(<<"n","a","v","i","g","a","t","i","o","n">>, {"next"}),
                  JsonNoIntent, NotJson}]
        \cup {[kind |-> "raise"], [kind |-> "no_content"]}

\* the replies explored within a session
ISessionReplies ==
    [kind : {"content"},
     json : {JsonIntent(NAVIGATION, {"next"}), JsonIntent(NAVIGATION, {}),
             JsonIntent(REPEAT, {}), JsonIntent(STOP, {}),
             JsonIntent(TIMING, {}), JsonNoIntent}]
        \cup {[kind |-> "raise"]}

\* the replies explored for the classification learn_from_interaction makes
ILearnReplies ==
    {[kind |-> "content", json |-> JsonIntent(TIMING, {})],
     [kind |-> "content", json |-> JsonNoIntent],
     [kind |-> "raise"]}

\* intent_data["intent"] can be evaluated
has_intent(data) == "intent" \in DOMAIN data

\* intent_data.get("entities", [])
entities_of(data) == IF "entities" \in DOMAIN data THEN data.entities ELSE {}

_simple_intent_fallback(input) ==
    LET user_lower == str_lower(input)
    IN  IF any_in({ <<"n","e","x","t">>, <<"c","o","n","t","i","n","u","e">>, <<"p","r","o","c","e","e","d">> }, user_lower)
        THEN [intent |-> NAVIGATION, confidence |-> 8, entities |-> {"next"}]
        ELSE IF any_in({ <<"r","e","p","e","a","t">>, <<"a","g","a","i","n">> }, user_lower)
        THEN [intent |-> REPEAT, confidence |-> 8, entities |-> {"repeat"}]
        ELSE IF any_in({ <<"s","t","o","p">>, <<"q","u","i","t">>, <<"e","n","d">> }, user_lower)
        THEN [intent |-> STOP, confidence |-> 8, entities |-> {"stop"}]
        ELSE [intent |-> GENERAL_QUESTION, confidence |-> 5, entities |-> {}]

\* json.loads(response.choices[0].message.content) succeeded
parsed(reply) == reply.kind = "content" /\ reply.json.valid

\* the value classify_intent returns: the parsed document as it is, or the
\* fallback when the call or json.loads raised
intelligent_classify_intent(input, reply) ==
    IF parsed(reply) THEN reply.json.value ELSE _simple_intent_fallback(input)

\* the entry classify_intent appends to questions_asked before it returns a
\* parsed document; of the entry the part that is read back is kept
log_question(ctx, input, reply, cs) ==
    IF parsed(reply)
    THEN [ctx EXCEPT !.questions_asked =
            Append(@, [intent |-> reply.json.value])]
    ELSE ctx

(* ---------- IntelligentCookingAgent: get_intelligent_response ---------- *)

\* __init__: session_history keeps, of each record, the intent
InitIntelligentUserModel ==
    [cooking_pace |-> "normal",
     question_patterns |-> << >>,
     skill_progression |-> << >>,
     preferences |-> << >>,
     session_history |-> << >>]

InitCookingContext ==
    [step_timings |-> << >>,
     questions_asked |-> << >>,
     confusion_indicators |-> 0,
     proactive_suggestions |-> << >>]

\* the length session_history is cut back to
HistoryLimit == 50

\* seconds; _calculate_step_duration returns it on both of its paths
StepDuration == 180

RECURSIVE sum_seq(_)
sum_seq(q) == IF q = << >> THEN 0 ELSE Head(q) + sum_seq(Tail(q))

\* avg_time against 120 and 300, multiplied out by the number of timings
intelligent_update_cooking_pace(um, ctx) ==
    LET n == Len(ctx.step_timings)
        total == sum_seq(ctx.step_timings)
    IN  IF n < 3 THEN um
        ELSE IF total < 120 * n THEN [um EXCEPT !.cooking_pace = "fast"]
        ELSE IF total > 300 * n THEN [um EXCEPT !.cooking_pace = "slow"]
        ELSE [um EXCEPT !.cooking_pace = "normal"]

\* seq[-n:]
last_n(q, n) == IF Len(q) <= n THEN q ELSE SubSeq(q, Len(q) - n + 1, Len(q))

\* build_rich_context reads q["intent"]["intent"] of the last three questions
build_rich_context_raises(ctx) ==
    \E i \in DOMAIN last_n(ctx.questions_asked, 3) :
        ~has_intent(last_n(ctx.questions_asked, 3)[i].intent)

_handle_navigation(s, data, steps) ==
    IF "next" \in entities_of(data)
    THEN LET next == s.current_step + 1
         IN  [session |-> [s EXCEPT !.current_step = next],
              response |->
                 IF next < Len(steps)
                 THEN IF str_in(<<"p","r","e","h","e","a","t">>, str_lower(step_at(steps, next)))
                      THEN <<"M","o","v","i","n","g"," ","t","o"," ","n","e","x","t"," ","s","t","e","p","."," ","P","r","o"," ","t","i","p",":"," ","S","t","a","r","t"," ","p","r","e","h","e","a","t","i","n","g"," ","n","o","w"," ","a","s"," ","i","t"," ","t","a","k","e","s"," ","t","i","m","e","!">>
                      ELSE IF \/ str_in(<<"c","h","o","p">>, str_lower(step_at(steps, next)))
                              \/ str_in(<<"c","u","t">>, str_lower(step_at(steps, next)))
                      THEN <<"N","e","x","t"," ","s","t","e","p"," ","i","n","v","o","l","v","e","s"," ","c","u","t","t","i","n","g","."," ","M","a","k","e"," ","s","u","r","e"," ","y","o","u","r"," ","k","n","i","f","e"," ","i","s"," ","s","h","a","r","p"," ","f","o","r"," ","s","a","f","e","t","y","!">>
                      ELSE None
                 ELSE None,
              raised |-> FALSE]
    ELSE [session |-> s,
          response |-> <<"I"," ","d","i","d","n","'","t"," ","u","n","d","e","r","s","t","a","n","d"," ","t","h","a","t"," ","n","a","v","i","g","a","t","i","o","n"," ","c","o","m","m","a","n","d",".">>,
          raised |-> FALSE]

\* str(n) of a step number
Digits == <<"0","1","2","3","4","5","6","7","8","9">>
RECURSIVE str_int(_)
str_int(n) ==
    IF n < 10 THEN <<Digits[n + 1]>>
    ELSE str_int(n \div 10) \o <<Digits[(n % 10) + 1]>>

\* f"Step {self.current_step + 1}: {self.recipe_steps[self.current_step]}"
step_text(steps, i) ==
    <<"S","t","e","p"," ">> \o str_int(i + 1) \o <<":"," ">> \o step_at(steps, i)

_handle_repeat(s, steps) ==
    [session |-> s,
     response |->
        IF s.current_step < Len(steps)
        THEN IF s.cooking_context.confusion_indicators > 2
             THEN step_text(steps, s.current_step)
                  \o <<"\n","\n","T","a","k","e"," ","y","o","u","r"," ","t","i","m","e"," ","w","i","t","h"," ","t","h","i","s"," ","s","t","e","p","."," ","W","o","u","l","d"," ","y","o","u"," ","l","i","k","e"," ","m","e"," ","t","o"," ","b","r","e","a","k"," ","i","t"," ","d","o","w","n"," ","f","u","r","t","h","e","r","?">>
             ELSE step_text(steps, s.current_step)
        ELSE <<"W","e","'","v","e"," ","c","o","m","p","l","e","t","e","d"," ","a","l","l"," ","s","t","e","p","s","!">>,
     raised |-> FALSE]

\* learn_from_interaction: it classifies the input once more (reply2); then
\* the counters; raised when that second intent_data has no "intent"
intelligent_learn_from_interaction(s, input, reply2) ==
    LET data == intelligent_classify_intent(input, reply2)
        ctx1 == log_question(s.cooking_context, input, reply2, s.current_step)
    IN  IF ~has_intent(data)
        THEN [session |-> [s EXCEPT !.cooking_context = ctx1], raised |-> TRUE]
        ELSE
        LET intent == data.intent
            um1 == [s.user_model EXCEPT
                      !.question_patterns = dict_count(@, intent)]
            timed == intent = NAVIGATION
                     /\ str_lower(input) \in { <<"n","e","x","t">>, <<"c","o","n","t","i","n","u","e">> }
            ctx2 == IF timed
                    THEN [ctx1 EXCEPT !.step_timings = Append(@, StepDuration)]
                    ELSE ctx1
            um2 == IF timed THEN intelligent_update_cooking_pace(um1, ctx2)
                   ELSE um1
            um3 == [um2 EXCEPT !.session_history =
                      last_n(Append(@, [intent |-> intent]), HistoryLimit)]
        IN  [session |-> [s EXCEPT !.user_model = um3,
                                   !.cooking_context = ctx2],
             raised |-> FALSE]

\* get_intelligent_response: the session after it, the response, and whether
\* an exception left it
get_intelligent_response(s, input, steps, reply, areply, reply2) ==
    LET data == intelligent_classify_intent(input, reply)
        s1 == [s EXCEPT !.cooking_context =
                 log_question(@, input, reply, s.current_step)]
    IN  IF ~has_intent(data)
        THEN [session |-> s1, response |-> None, raised |-> TRUE]
        ELSE IF data.intent = NAVIGATION
        THEN _handle_navigation(s1, data, steps)
        ELSE IF data.intent = REPEAT
        THEN _handle_repeat(s1, steps)
        ELSE IF data.intent = STOP
        THEN [session |-> [s1 EXCEPT !.is_interrupted = TRUE],
              response |-> <<"E","n","d","i","n","g"," ","c","o","o","k","i","n","g"," ","s","e","s","s","i","o","n","."," ","G","r","e","a","t"," ","j","o","b","!">>,
              raised |-> FALSE]
        ELSE IF build_rich_context_raises(s1.cooking_context)
        THEN [session |-> s1, response |-> None, raised |-> TRUE]
        ELSE IF areply.kind = "content"
        THEN LET learned == intelligent_learn_from_interaction(s1, input, reply2)
             IN  [session |-> learned.session,
                  response |-> IF learned.raised
                               THEN ProcessingTroubleMsg
                               ELSE str_strip(areply.text),
                  raised |-> FALSE]
        ELSE [session |-> s1,
              response |-> ProcessingTroubleMsg,
              raised |-> FALSE]

\* get_intelligent_response reaches its completion call
answers(s, input, reply) ==
    LET data == intelligent_classify_intent(input, reply)
    IN  /\ has_intent(data)
        /\ data.intent \notin {NAVIGATION, REPEAT, STOP}
        /\ ~build_rich_context_raises(
               log_question(s.cooking_context, input, reply, s.current_step))

\* listen(): the recognized text, else the typed one, stripped
intelligent_listen(sr, typed) ==
    IF sr.reason = "RecognizedSpeech" THEN str_strip(sr.text)
    ELSE str_strip(typed.text)

(* ------------------ IntelligentCookingAgent: run() --------------------- *)

IRun ==
    /\ agent = "IntelligentCookingAgent"
    /\ pc = "new"
    /\ \E r \in Recipes :
         /\ recipe_steps' = r.steps
         /\ recipe_ingredients' = r.ingredients
         /\ recipe_name' = r.name
    /\ pc' = "top"
    /\ UNCHANGED <<agent, current_step, is_interrupted, is_completed,
                   user_model, cooking_context, step_spoken, announced_step,
                   user_input,
                   intent_data, ai_intent_data, response, all_done_spoken,
                   pre, turn>>
    /\ UNCHANGED <<voice, script>>
    /\ UNCHANGED <<files, database, saved, result>>

\* the loop test and the announcement of the step; after the loop the closing
\* announcement
ILoopTop ==
    /\ agent = "IntelligentCookingAgent"
    /\ pc = "top"
    /\ IF loop_condition(Session, recipe_steps)
       THEN /\ step_spoken' = TRUE
            /\ announced_step' = current_step
            /\ pc' = "listen"
            /\ ForgetTurn
            /\ UNCHANGED all_done_spoken
       ELSE /\ AfterLoop
            /\ pc' = "done"
            /\ UNCHANGED <<step_spoken, announced_step, user_input,
                           intent_data, ai_intent_data, response, pre, turn>>
    /\ UNCHANGED <<agent, recipe_steps, recipe_ingredients, recipe_name,
                   current_step, is_interrupted, is_completed, user_model,
                   cooking_context>>
    /\ UNCHANGED <<voice, script>>
    /\ UNCHANGED <<files, database, saved, result>>

\* user_input = self.listen(); if not user_input: continue
IListen ==
    /\ agent = "IntelligentCookingAgent"
    /\ pc = "listen"
    /\ \E sr \in SpeechResults :
       \E typed \in (IF sr.reason = "RecognizedSpeech"
                     THEN {NotPrompted} ELSE PromptResults) :
         IF typed.kind = "KeyboardInterrupt"
         THEN /\ pc' = "aborted"
              /\ UNCHANGED <<user_input, turn>>
         ELSE /\ user_input' = intelligent_listen(sr, typed)
              /\ turn' = [NewTurn EXCEPT
                            !.empty_input = falsy(intelligent_listen(sr, typed))]
              /\ pc' = IF falsy(intelligent_listen(sr, typed))
                       THEN "top" ELSE "respond"
    /\ UNCHANGED <<agent, recipe_steps, recipe_ingredients, recipe_name,
                   current_step, is_interrupted, is_completed, user_model,
                   cooking_context, step_spoken, announced_step, intent_data, ai_intent_data,
                   response, all_done_spoken, pre>>
    /\ UNCHANGED <<voice, script>>
    /\ UNCHANGED <<files, database, saved, result>>

\* response = self.get_intelligent_response(user_input)
IRespond ==
    /\ agent = "IntelligentCookingAgent"
    /\ pc = "respond"
    /\ \E reply \in ISessionReplies :
       \E areply \in (IF answers(Session, user_input, reply)
                      THEN AnswerReplies ELSE {NotCalled}) :
       \E reply2 \in (IF areply.kind = "content"
                      THEN ILearnReplies ELSE {NotCalled}) :
         LET out == get_intelligent_response(Session, user_input, recipe_steps,
                                             reply, areply, reply2)
         IN  /\ Len(out.session.cooking_context.questions_asked) <= MaxLog
             /\ Len(out.session.user_model.session_history) <= MaxQuestions
             /\ SetSession(out.session)
             /\ ai_intent_data' = intelligent_classify_intent(user_input, reply)
             /\ response' = out.response
             /\ turn' = [turn EXCEPT
                           !.classified =
                               IF areply.kind = "content" THEN 2 ELSE 1,
                           !.fallback = ~parsed(reply),
                           !.handled = TRUE,
                           !.answer =
                               IF areply = NotCalled THEN "none"
                               ELSE IF areply.kind = "content"
                               THEN "ok" ELSE "failed"]
             /\ pc' = IF out.raised THEN "crashed" ELSE "top"
    /\ user_input' = None
    /\ UNCHANGED <<agent, recipe_steps, recipe_ingredients, recipe_name,
                   step_spoken, announced_step, intent_data, all_done_spoken,
                   pre>>
    /\ UNCHANGED <<voice, script>>
    /\ UNCHANGED <<files, database, saved, result>>

(* ------------------- classify_intent by itself ------------------------- *)

\* one call of CookingAgent.classify_intent
ClassifyCall ==
    /\ agent = "CookingAgent"
    /\ pc = "call"
    /\ \E reply \in ClassifyReplies :
         /\ intent_data' = classify_intent(user_input, reply)
         /\ turn' = [turn EXCEPT !.classified = 1,
                                 !.fallback = reply.kind # "content"]
    /\ pc' = "returned"
    /\ UNCHANGED <<agent, recipe_steps, recipe_ingredients, recipe_name,
                   current_step, is_interrupted, is_completed, user_model,
                   cooking_context, step_spoken, announced_step, user_input, ai_intent_data,
                   response, all_done_spoken, pre>>
    /\ UNCHANGED <<voice, script>>
    /\ UNCHANGED <<files, database, saved, result>>

\* one call of IntelligentCookingAgent.classify_intent
IClassifyCall ==
    /\ agent = "IntelligentCookingAgent"
    /\ pc = "call"
    /\ \E reply \in IClassifyReplies :
         /\ intent_data' = intelligent_classify_intent(user_input, reply)
         /\ cooking_context' =
               log_question(cooking_context, user_input, reply, current_step)
         /\ turn' = [turn EXCEPT !.classified = 1,
                                 !.fallback = ~parsed(reply)]
    /\ pc' = "returned"
    /\ UNCHANGED <<agent, recipe_steps, recipe_ingredients, recipe_name,
                   current_step, is_interrupted, is_completed, user_model,
                   step_spoken, announced_step, user_input, ai_intent_data,
                   response,
                   all_done_spoken, pre>>
    /\ UNCHANGED <<voice, script>>
    /\ UNCHANGED <<files, database, saved, result>>

(* ----------------- VoiceAgent (su_chef_clean.py) ----------------------- *)

\* the locals of run_voice_guidance before it runs; heard tells whether the
\* last listen() returned a text, silent counts the listen() calls of the
\* current loop that returned None since the last one that returned a text
NoVoice ==
    [retry_count |-> 0, step_retry_count |-> 0, ready_retry_count |-> 0,
     final_retry_count |-> 0, heard |-> FALSE, silent |-> 0,
     result |-> FALSE]

max_retries == 3
max_step_retries == 5

\* what the recognizer may report as result.text to VoiceAgent
VoiceHeard ==
    { <<"R","e","a","d","y",".">>, <<"N","e","x","t",".">>, <<"r","e","p","e","a","t">>, <<"i","n","g","r","e","d","i","e","n","t","s">>, <<"S","t","o","p">>, <<"y","e","s">>,
      <<"n","o">>, <<"f","i","n","i","s","h","e","d">>, <<"h","o","w"," ","l","o","n","g">>, <<" ">> }

\* listen(): the recognized text, or None
VoiceResults ==
    [heard : {TRUE}, text : VoiceHeard] \cup {[heard |-> FALSE]}

voice_listen(r) == IF r.heard THEN str_strip(r.text) ELSE None

\* any(word in response.lower() for word in words)
said(r, words) == any_in(words, str_lower(voice_listen(r)))

\* the part of the state run_voice_guidance works on
VoiceState ==
    [pc |-> pc, current_step |-> current_step,
     is_interrupted |-> is_interrupted, voice |-> voice]

\* self.is_interrupted = True; return False
give_up(st) ==
    [st EXCEPT !.pc = "returned", !.is_interrupted = TRUE,
               !.voice.result = FALSE]

\* the for loop reaches step i (counted from 1), or ends and the final
\* confirmation begins
enter_step(st, i, steps) ==
    IF i <= Len(steps)
    THEN [st EXCEPT !.pc = "step", !.current_step = i,
                    !.voice.step_retry_count = 0]
    ELSE [st EXCEPT !.pc = "final", !.voice.final_retry_count = 0]

\* one pass of the loop that waits for "ready"
ready_loop(st, r, steps) ==
    IF ~r.heard
    THEN IF st.voice.retry_count + 1 >= max_retries
         THEN give_up([st EXCEPT !.voice.retry_count = @ + 1])
         ELSE [st EXCEPT !.voice.retry_count = @ + 1]
    ELSE IF said(r, { <<"r","e","a","d","y">>, <<"s","t","a","r","t">>, <<"b","e","g","i","n">> })
    THEN enter_step(st, 1, steps)
    ELSE IF said(r, { <<"s","t","o","p">>, <<"q","u","i","t">>, <<"e","x","i","t">> })
    THEN give_up(st)
    ELSE st

\* one pass of the loop of a step
step_loop(st, r, steps) ==
    IF ~r.heard
    THEN IF st.voice.step_retry_count + 1 >= max_step_retries
         THEN give_up([st EXCEPT !.voice.step_retry_count = @ + 1])
         ELSE [st EXCEPT !.voice.step_retry_count = @ + 1]
    ELSE IF said(r, { <<"n","e","x","t">>, <<"c","o","n","t","i","n","u","e">>, <<"d","o","n","e">> })
    THEN IF st.current_step < Len(steps)
         THEN [st EXCEPT !.pc = "confirm", !.voice.ready_retry_count = 0]
         ELSE enter_step(st, st.current_step + 1, steps)
    ELSE IF said(r, { <<"r","e","p","e","a","t">>, <<"a","g","a","i","n">> })
    THEN st
    ELSE IF said(r, { <<"i","n","g","r","e","d","i","e","n","t","s">> })
    THEN st
    ELSE IF said(r, { <<"s","t","o","p">>, <<"q","u","i","t">>, <<"e","x","i","t">> })
    THEN give_up(st)
    ELSE st

\* one pass of the loop that asks "Are you ready for the next step?"
confirm_loop(st, r, steps) ==
    IF ~r.heard
    THEN IF st.voice.ready_retry_count + 1 >= 3
         THEN enter_step([st EXCEPT !.voice.ready_retry_count = @ + 1],
                         st.current_step + 1, steps)
         ELSE [st EXCEPT !.voice.ready_retry_count = @ + 1]
    ELSE IF said(r, { <<"y","e","s">>, <<"r","e","a","d","y">>, <<"n","e","x","t">>, <<"c","o","n","t","i","n","u","e">> })
    THEN enter_step(st, st.current_step + 1, steps)
    ELSE IF said(r, { <<"n","o">>, <<"w","a","i","t">>, <<"h","o","l","d">> })
    THEN st
    ELSE IF said(r, { <<"s","t","o","p">>, <<"q","u","i","t">>, <<"e","x","i","t">> })
    THEN give_up(st)
    ELSE st

\* one pass of the final confirmation; recipe['steps'][final_step-1] raises
\* IndexError on a recipe without steps
final_loop(st, r, steps) ==
    IF ~r.heard
    THEN IF st.voice.final_retry_count + 1 >= 3
         THEN [st EXCEPT !.pc = "returned", !.voice.result = TRUE,
                         !.voice.final_retry_count = @ + 1]
         ELSE [st EXCEPT !.voice.final_retry_count = @ + 1]
    ELSE IF said(r, { <<"f","i","n","i","s","h","e","d">>, <<"d","o","n","e">>, <<"c","o","m","p","l","e","t","e">>, <<"e","n","d">> })
    THEN [st EXCEPT !.pc = "returned", !.voice.result = TRUE]
    ELSE IF said(r, { <<"r","e","p","e","a","t">>, <<"l","a","s","t">>, <<"f","i","n","a","l">> })
    THEN IF Len(steps) = 0 THEN [st EXCEPT !.pc = "crashed"] ELSE st
    ELSE st

\* response = self.listen() was r and the pass of the loop led to st
VoicePass(st, r) ==
    /\ pc' = st.pc
    /\ current_step' = st.current_step
    /\ is_interrupted' = st.is_interrupted
    /\ voice' = [st.voice EXCEPT
                    !.heard = r.heard,
                    !.silent = IF r.heard \/ st.pc \notin {pc, "returned"}
                               THEN 0 ELSE @ + 1]
    /\ user_input' = voice_listen(r)
    /\ pre' = Session
    /\ UNCHANGED <<agent, recipe_steps, recipe_ingredients, recipe_name,
                   is_completed, user_model, cooking_context, step_spoken,
                   announced_step, intent_data, ai_intent_data, response,
                   all_done_spoken, turn, script>>
    /\ UNCHANGED <<files, database, saved, result>>

\* the recipe_data of a recipe file that holds the empty JSON object {}
EmptyRecipeData == [len |-> 0]

\* not self.current_recipe
no_recipe(recipe_data) == recipe_data = EmptyRecipeData

\* load_recipe(recipe_data), then run_voice_guidance() up to its first loop,
\* or to "No recipe loaded!" and return False
VoiceRun ==
    /\ agent = "VoiceAgent"
    /\ pc = "new"
    /\ \E r \in Recipes \cup {EmptyRecipeData} :
         IF no_recipe(r)
         THEN /\ recipe_steps' = << >>
              /\ recipe_ingredients' = << >>
              /\ recipe_name' = << >>
              /\ pc' = "no_recipe"
         ELSE /\ recipe_steps' = r.steps
              /\ recipe_ingredients' = r.ingredients
              /\ recipe_name' = r.name
              /\ pc' = "ready"
    /\ current_step' = 0
    /\ is_interrupted' = FALSE
    /\ voice' = NoVoice
    /\ UNCHANGED <<agent, is_completed, user_model, cooking_context,
                   step_spoken, announced_step, user_input, intent_data,
                   ai_intent_data, response, all_done_spoken, pre, turn,
                   script>>
    /\ UNCHANGED <<files, database, saved, result>>

VoiceReady ==
    /\ agent = "VoiceAgent"
    /\ pc = "ready"
    /\ \E r \in VoiceResults :
         VoicePass(ready_loop(VoiceState, r, recipe_steps), r)

VoiceStep ==
    /\ agent = "VoiceAgent"
    /\ pc = "step"
    /\ \E r \in VoiceResults :
         VoicePass(step_loop(VoiceState, r, recipe_steps), r)

VoiceConfirm ==
    /\ agent = "VoiceAgent"
    /\ pc = "confirm"
    /\ \E r \in VoiceResults :
         VoicePass(confirm_loop(VoiceState, r, recipe_steps), r)

VoiceFinal ==
    /\ agent = "VoiceAgent"
    /\ pc = "final"
    /\ \E r \in VoiceResults :
         VoicePass(final_loop(VoiceState, r, recipe_steps), r)

(* ------------- CookingAgent.run on a scripted conversation ------------- *)

\* what the user says, in this order, during one session on Toast
Scenario == << <<"h","e","l","l","o">>, <<"n","e","x","t">>, <<"h","o","w"," ","l","o","n","g"," ","d","o","e","s"," ","t","h","i","s"," ","t","a","k","e">>, <<"n","e","x","t">>, <<"s","t","o","p">> >>

\* the labels the completion service gives an utterance of the scenario when
\* it answers the classification request
ScenarioLabels(u) ==
    IF u = <<"h","e","l","l","o">> THEN {QUESTION, CLARIFICATION}
    ELSE IF u = <<"n","e","x","t">> THEN {NAVIGATION}
    ELSE IF u = <<"h","o","w"," ","l","o","n","g"," ","d","o","e","s"," ","t","h","i","s"," ","t","a","k","e">> THEN {TIMING}
    ELSE IF u = <<"s","t","o","p">> THEN {STOP}
    ELSE {}

\* the service answers with such a label, or the request fails and
\* classify_intent falls back on its keyword table
ScenarioReplies(u) ==
    [kind : {"content"}, text : ScenarioLabels(u)] \cup {[kind |-> "raise"]}

\* load_recipe() on Toast succeeded; the greeting is spoken
ScriptRun ==
    /\ agent = "CookingAgent"
    /\ pc = "new"
    /\ recipe_steps' = Toast.steps
    /\ recipe_ingredients' = Toast.ingredients
    /\ recipe_name' = Toast.name
    /\ step_spoken' = FALSE
    /\ pc' = "top"
    /\ UNCHANGED <<agent, announced_step, current_step, is_interrupted,
                   is_completed, user_model, cooking_context, user_input,
                   intent_data, ai_intent_data, response, all_done_spoken,
                   pre, turn, voice, script>>
    /\ UNCHANGED <<files, database, saved, result>>

\* user_input = self.listen(): the next utterance is recognized, or it is not
\* and the user types it at the prompt
ScriptListen ==
    /\ agent = "CookingAgent"
    /\ pc = "listen"
    /\ script # << >>
    /\ \E sr \in {[reason |-> "RecognizedSpeech", text |-> Head(script)],
                  [reason |-> "NoMatch"]} :
         user_input' = IF falsy(listen(sr, NotPrompted))
                       THEN prompt_or_next([kind |-> "text",
                                            text |-> Head(script)])
                       ELSE listen(sr, NotPrompted)
    /\ script' = Tail(script)
    /\ turn' = NewTurn
    /\ pc' = "classify"
    /\ UNCHANGED <<agent, recipe_steps, recipe_ingredients, recipe_name,
                   current_step, is_interrupted, is_completed, user_model,
                   cooking_context, step_spoken, announced_step, intent_data,
                   ai_intent_data, response, all_done_spoken, pre, voice>>
    /\ UNCHANGED <<files, database, saved, result>>

\* intent_data = self.classify_intent(user_input), in run()
ScriptClassify ==
    /\ agent = "CookingAgent"
    /\ pc = "classify"
    /\ \E reply \in ScenarioReplies(user_input) :
         intent_data' = classify_intent(user_input, reply)
    /\ turn' = [turn EXCEPT !.classified = @ + 1]
    /\ pc' = "respond"
    /\ UNCHANGED <<agent, recipe_steps, recipe_ingredients, recipe_name,
                   current_step, is_interrupted, is_completed, user_model,
                   cooking_context, step_spoken, announced_step, user_input,
                   ai_intent_data, response, all_done_spoken, pre, voice,
                   script>>
    /\ UNCHANGED <<files, database, saved, result>>

\* response = self.get_ai_response(user_input), and the rest of the loop body
ScriptRespond ==
    /\ agent = "CookingAgent"
    /\ pc = "respond"
    /\ \E reply \in ScenarioReplies(user_input) : RespondOn(reply)
    /\ pc' = "top"
    /\ user_input' = None
    /\ intent_data' = NoIntentData
    /\ UNCHANGED <<agent, recipe_steps, recipe_ingredients, recipe_name,
                   all_done_spoken, pre, voice, script>>
    /\ UNCHANGED <<files, database, saved, result>>

ScenarioInit ==
    /\ agent = "CookingAgent"
    /\ pc = "new"
    /\ recipe_steps = << >>
    /\ recipe_ingredients = << >>
    /\ recipe_name = << >>
    /\ current_step = 0
    /\ is_interrupted = FALSE
    /\ is_completed = FALSE
    /\ user_model = InitUserModel
    /\ cooking_context = << >>
    /\ step_spoken = FALSE
    /\ announced_step = -1
    /\ user_input = None
    /\ intent_data = NoIntentData
    /\ ai_intent_data = NoIntentData
    /\ response = None
    /\ all_done_spoken = FALSE
    /\ pre = Session
    /\ turn = NewTurn
    /\ voice = NoVoice
    /\ script = Scenario
    /\ files = NoFiles
    /\ database = NoDatabase
    /\ saved = << >>
    /\ result = NoCall

ScenarioNext ==
    \/ ScriptRun
    \/ LoopTop
    \/ ScriptListen
    \/ ScriptClassify
    \/ ScriptRespond

ScenarioSpec == ScenarioInit /\ [][ScenarioNext]_vars

(* --------------- CookingAgent.learn_from_interaction alone ------------- *)

\* the intents learn_from_interaction is called with
LearnIntents == IntentLabels \cup {EQUIPMENT}

\* the values of current_step it is called at on Toast: the first step, and
\* the index past the last step
LearnSteps == {0, Len(Toast.steps)}

RECURSIVE Replay(_, _)
\* the user model after the recorded interactions are learned from the start
Replay(log, steps) ==
    IF log = << >> THEN InitUserModel
    ELSE learn_from_interaction(
             Replay(SubSeq(log, 1, Len(log) - 1), steps),
             log[Len(log)].intent, log[Len(log)].step, steps)

\* self.learn_from_interaction(user_input, intent, ai_response) at some step
LearnCall ==
    /\ agent = "CookingAgent"
    /\ pc = "learn"
    /\ Len(user_model.session_questions) < MaxLearn
    /\ \E intent \in LearnIntents :
       \E cs \in LearnSteps :
         /\ current_step' = cs
         /\ user_model' =
               learn_from_interaction(user_model, intent, cs, recipe_steps)
         /\ ai_intent_data' = [intent |-> intent, confidence |-> 0]
    /\ pre' = Session
    /\ UNCHANGED <<agent, pc, recipe_steps, recipe_ingredients, recipe_name,
                   is_interrupted, is_completed, cooking_context, step_spoken,
                   announced_step, user_input, intent_data, response,
                   all_done_spoken, turn, voice, script>>
    /\ UNCHANGED <<files, database, saved, result>>

LearnInit ==
    /\ agent = "CookingAgent"
    /\ pc = "learn"
    /\ recipe_steps = Toast.steps
    /\ recipe_ingredients = Toast.ingredients
    /\ recipe_name = Toast.name
    /\ current_step = 0
    /\ is_interrupted = FALSE
    /\ is_completed = FALSE
    /\ user_model = InitUserModel
    /\ cooking_context = << >>
    /\ step_spoken = FALSE
    /\ announced_step = -1
    /\ user_input = None
    /\ intent_data = NoIntentData
    /\ ai_intent_data = NoIntentData
    /\ response = None
    /\ all_done_spoken = FALSE
    /\ pre = Session
    /\ turn = NewTurn
    /\ voice = NoVoice
    /\ script = << >>
    /\ files = NoFiles
    /\ database = NoDatabase
    /\ saved = << >>
    /\ result = NoCall

LearnNext == LearnCall

LearnSpec == LearnInit /\ [][LearnNext]_vars

(* ---------------- CookingAgent._update_cooking_pace alone -------------- *)

Paces == {"slow", "normal", "fast"}

\* question_patterns after n NAVIGATION, d TIMING and r REPEAT interactions
pattern_counts(n, d, r) ==
    [k \in (IF n > 0 THEN {NAVIGATION} ELSE {})
            \cup (IF d > 0 THEN {TIMING} ELSE {})
            \cup (IF r > 0 THEN {REPEAT} ELSE {}) |->
        IF k = NAVIGATION THEN n ELSE IF k = TIMING THEN d ELSE r]

\* a user model with these interactions counted and some cooking_pace; the
\* fields _update_cooking_pace does not read are as __init__ sets them
counted_model(pace, n, d, r) ==
    [InitUserModel EXCEPT
        !.cooking_pace = pace,
        !.question_patterns = pattern_counts(n, d, r),
        !.confusion_count = r,
        !.skill_indicators.timing_questions = d,
        !.interaction_patterns =
            [quick_navigation |-> n, detailed_questions |-> d,
             repeat_requests |-> r]]

\* self._update_cooking_pace()
UpdatePace ==
    /\ agent = "CookingAgent"
    /\ pc = "pace"
    /\ user_model' = _update_cooking_pace(user_model)
    /\ pre' = Session
    /\ pc' = "paced"
    /\ UNCHANGED <<agent, recipe_steps, recipe_ingredients, recipe_name,
                   current_step, is_interrupted, is_completed,
                   cooking_context, step_spoken, announced_step, user_input,
                   intent_data, ai_intent_data, response, all_done_spoken,
                   turn, voice, script>>
    /\ UNCHANGED <<files, database, saved, result>>

PaceInit ==
    /\ agent = "CookingAgent"
    /\ pc = "pace"
    /\ recipe_steps = Toast.steps
    /\ recipe_ingredients = Toast.ingredients
    /\ recipe_name = Toast.name
    /\ current_step = 0
    /\ is_interrupted = FALSE
    /\ is_completed = FALSE
    /\ \E pace \in Paces :
       \E n \in 0..MaxNavigations :
       \E d \in 0..MaxDetailed :
       \E r \in 0..MaxRepeats :
         user_model = counted_model(pace, n, d, r)
    /\ cooking_context = << >>
    /\ step_spoken = FALSE
    /\ announced_step = -1
    /\ user_input = None
    /\ intent_data = NoIntentData
    /\ ai_intent_data = NoIntentData
    /\ response = None
    /\ all_done_spoken = FALSE
    /\ pre = Session
    /\ turn = NewTurn
    /\ voice = NoVoice
    /\ script = << >>
    /\ files = NoFiles
    /\ database = NoDatabase
    /\ saved = << >>
    /\ result = NoCall

PaceNext == UpdatePace

PaceSpec == PaceInit /\ [][PaceNext]_vars

(* ------------- CookingAgent.get_personalized_response alone ------------ *)

\* answers of the completion service that are personalized
BaseResponses == { <<"A","b","o","u","t"," ","3"," ","m","i","n","u","t","e","s",".">>, <<"S","t","i","r"," ","g","e","n","t","l","y",".">> }

\* counts of detailed questions and of repeat requests on both sides of the
\* thresholds get_personalized_response tests
SkillCounts == {0, 4, 9}
RepeatCounts == {0, 3, 4}

\* personalized_response = self.get_personalized_response(base_response, intent)
Personalize ==
    /\ agent = "CookingAgent"
    /\ pc = "personalize"
    /\ \E base_response \in BaseResponses :
       \E intent \in LearnIntents :
         /\ user_input' = base_response
         /\ ai_intent_data' = [intent |-> intent, confidence |-> 0]
         /\ response' =
               get_personalized_response(user_model, base_response, intent)
    /\ user_model' = user_model
    /\ pre' = Session
    /\ pc' = "personalized"
    /\ UNCHANGED <<agent, recipe_steps, recipe_ingredients, recipe_name,
                   current_step, is_interrupted, is_completed,
                   cooking_context, step_spoken, announced_step, intent_data,
                   all_done_spoken, turn, voice, script>>
    /\ UNCHANGED <<files, database, saved, result>>

\* a second call with the same base response and intent
PersonalizeAgain ==
    /\ agent = "CookingAgent"
    /\ pc = "personalized"
    /\ script' = << get_personalized_response(user_model, user_input,
                                              ai_intent_data.intent) >>
    /\ user_model' = user_model
    /\ pc' = "personalized_twice"
    /\ UNCHANGED <<agent, recipe_steps, recipe_ingredients, recipe_name,
                   current_step, is_interrupted, is_completed,
                   cooking_context, step_spoken, announced_step, user_input,
                   intent_data, ai_intent_data, response, all_done_spoken,
                   pre, turn, voice>>
    /\ UNCHANGED <<files, database, saved, result>>

PersonalizeInit ==
    /\ agent = "CookingAgent"
    /\ pc = "personalize"
    /\ recipe_steps = Toast.steps
    /\ recipe_ingredients = Toast.ingredients
    /\ recipe_name = Toast.name
    /\ current_step = 0
    /\ is_interrupted = FALSE
    /\ is_completed = FALSE
    /\ \E pace \in Paces :
       \E d \in SkillCounts :
       \E r \in RepeatCounts :
         user_model = counted_model(pace, 0, d, r)
    /\ cooking_context = << >>
    /\ step_spoken = FALSE
    /\ announced_step = -1
    /\ user_input = None
    /\ intent_data = NoIntentData
    /\ ai_intent_data = NoIntentData
    /\ response = None
    /\ all_done_spoken = FALSE
    /\ pre = Session
    /\ turn = NewTurn
    /\ voice = NoVoice
    /\ script = << >>
    /\ files = NoFiles
    /\ database = NoDatabase
    /\ saved = << >>
    /\ result = NoCall

PersonalizeNext ==
    \/ Personalize
    \/ PersonalizeAgain

PersonalizeSpec == PersonalizeInit /\ [][PersonalizeNext]_vars

(* ------------------------ build_rich_context alone --------------------- *)

\* q[a:b] for 0 <= a <= b
py_slice(q, a, b) ==
    SubSeq(q, a + 1, IF b < Len(q) THEN b ELSE Len(q))

\* progress_tenths counting an empty recipe as finished
progress_tenths_done(cs, n) ==
    IF n = 0 THEN 1000 ELSE (1000 * cs) \div n

\* (current_step / len(recipe_steps)) * 100 if recipe_steps else 0, as shown
\* with one decimal: the number of tenths of a percent, a tie going to the
\* even tenth
progress_tenths(cs, n) ==
    IF n = 0 THEN 0
    ELSE LET q == (1000 * cs) \div n
             r == (1000 * cs) % n
         IN  IF 2 * r > n THEN q + 1
             ELSE IF 2 * r = n THEN q + (q % 2)
             ELSE q

\* CookingAgent.build_rich_context: of the text it returns, the values it
\* computes from the session
build_rich_context(s, name, steps) ==
    LET session_questions == s.user_model.session_questions
        recent == last_n(session_questions, 3)
        recent_intents == [i \in 1..Len(recent) |-> recent[i].intent]
        next_steps ==
            IF s.current_step + 1 < Len(steps)
            THEN py_slice(steps, s.current_step + 1, s.current_step + 3)
            ELSE << >>
        confusions == last_n(s.user_model.common_confusions, 2)
    IN  [raised |-> FALSE,
         recipe |-> name,
         progress_step |-> s.current_step + 1,
         total_steps |-> Len(steps),
         progress_percent |-> progress_tenths(s.current_step, Len(steps)),
         current_instruction |->
            IF s.current_step < Len(steps)
            THEN step_at(steps, s.current_step) ELSE <<"C","o","m","p","l","e","t","e">>,
         next_steps |-> py_slice(next_steps, 0, 2),
         cooking_pace |-> s.user_model.cooking_pace,
         skill_level |-> skill_level(s.user_model),
         confusion_level |->
            IF s.user_model.confusion_count > 3 THEN <<"H","i","g","h">>
            ELSE IF s.user_model.confusion_count > 1 THEN <<"M","e","d","i","u","m">>
            ELSE <<"L","o","w">>,
         recent_intents |-> recent_intents,
         total_questions |-> Len(session_questions),
         confusion_areas |-> [i \in 1..Len(confusions) |-> confusions[i].step]]

\* how many of the questions carry this intent
count_intent(questions, label) ==
    Cardinality({i \in DOMAIN questions : questions[i].intent.intent = label})

\* IntelligentCookingAgent._detect_confusion_patterns
_detect_confusion_patterns(recent_questions) ==
    IF Len(recent_questions) < 2 THEN <<"n","o","n","e">>
    ELSE IF \/ count_intent(recent_questions, CLARIFICATION) >= 2
            \/ count_intent(recent_questions, REPEAT) >= 2
    THEN <<"h","i","g","h">>
    ELSE IF \/ count_intent(recent_questions, CLARIFICATION) >= 1
            \/ count_intent(recent_questions, REPEAT) >= 1
    THEN <<"m","e","d","i","u","m">>
    ELSE <<"l","o","w">>

\* IntelligentCookingAgent.build_rich_context: of the dict it returns, the
\* values it computes from the session; q["intent"]["intent"] raises on a
\* logged classification without that key
intelligent_build_rich_context(s, name, steps) ==
    IF build_rich_context_raises(s.cooking_context)
    THEN [raised |-> TRUE]
    ELSE LET recent_questions == last_n(s.cooking_context.questions_asked, 3)
         IN  [raised |-> FALSE,
              recipe |-> name,
              progress_step |-> s.current_step + 1,
              total_steps |-> Len(steps),
              progress_percent |-> progress_tenths(s.current_step, Len(steps)),
              current_instruction |->
                 IF s.current_step < Len(steps)
                 THEN step_at(steps, s.current_step) ELSE <<"C","o","m","p","l","e","t","e">>,
              next_steps |->
                 IF s.current_step + 1 < Len(steps)
                 THEN py_slice(steps, s.current_step + 1, s.current_step + 3)
                 ELSE << >>,
              cooking_pace |-> s.user_model.cooking_pace,
              confusion_level |-> _detect_confusion_patterns(recent_questions),
              recent_intents |->
                 [i \in 1..Len(recent_questions) |->
                     recent_questions[i].intent.intent],
              total_questions |-> Len(s.cooking_context.questions_asked)]

\* the intents of the turns recorded before the context is built
ContextIntents == {CLARIFICATION, NAVIGATION, TIMING}

RECURSIVE Logs(_, _)
\* the sequences of at most n of these entries
Logs(entries, n) ==
    IF n = 0 THEN { << >> }
    ELSE LET shorter == Logs(entries, n - 1)
         IN  shorter \cup
             {Append(log, e) : log \in shorter, e \in entries}

\* rich_context = self.build_rich_context(...)
BuildContext ==
    /\ agent \in {"CookingAgent", "IntelligentCookingAgent"}
    /\ pc = "context"
    /\ result' =
          [op |-> "build_rich_context",
           value |-> IF agent = "CookingAgent"
                     THEN build_rich_context(Session, recipe_name, recipe_steps)
                     ELSE intelligent_build_rich_context(
                              Session, recipe_name, recipe_steps)]
    /\ pc' = "built"
    /\ UNCHANGED <<agent, recipe_steps, recipe_ingredients, recipe_name,
                   current_step, is_interrupted, is_completed, user_model,
                   cooking_context, step_spoken, announced_step, user_input,
                   intent_data, ai_intent_data, response, all_done_spoken,
                   pre, turn, voice, script, files, database, saved>>

ContextInit ==
    /\ agent \in {"CookingAgent", "IntelligentCookingAgent"}
    /\ pc = "context"
    /\ \E r \in Recipes :
         /\ recipe_steps = r.steps
         /\ recipe_ingredients = r.ingredients
         /\ recipe_name = r.name
         /\ current_step \in 0..Len(r.steps)
    /\ is_interrupted = FALSE
    /\ is_completed = FALSE
    /\ IF agent = "CookingAgent"
       THEN /\ \E log \in Logs([intent : ContextIntents, step : {0}],
                               MaxTurns) :
                 user_model = Replay(log, recipe_steps)
            /\ cooking_context = << >>
       ELSE /\ user_model = InitIntelligentUserModel
            /\ \E log \in Logs({[intent |-> JsonIntent(l, {}).value] :
                                   l \in ContextIntents}
                                 \cup {[intent |-> JsonNoIntent.value]},
                               MaxTurns) :
                 cooking_context =
                     [InitCookingContext EXCEPT !.questions_asked = log]
    /\ step_spoken = FALSE
    /\ announced_step = -1
    /\ user_input = None
    /\ intent_data = NoIntentData
    /\ ai_intent_data = NoIntentData
    /\ response = None
    /\ all_done_spoken = FALSE
    /\ pre = Session
    /\ turn = NewTurn
    /\ voice = NoVoice
    /\ script = << >>
    /\ files = NoFiles
    /\ database = NoDatabase
    /\ saved = << >>
    /\ result = NoCall

ContextNext == BuildContext

ContextSpec == ContextInit /\ [][ContextNext]_vars

(* -------------------- the turns a session keeps ------------------------ *)

\* the classifications of the questions that are recorded
HistoryIntents == {TIMING, CLARIFICATION}

\* CookingAgent.learn_from_interaction after an answered question
Record ==
    /\ agent = "CookingAgent"
    /\ pc = "record"
    /\ Len(user_model.session_questions) < MaxHistory
    /\ \E intent \in HistoryIntents :
         /\ user_model' = learn_from_interaction(user_model, intent,
                                                 current_step, recipe_steps)
         /\ ai_intent_data' = [intent |-> intent, confidence |-> 0]
    /\ pre' = Session
    /\ UNCHANGED <<agent, pc, recipe_steps, recipe_ingredients, recipe_name,
                   current_step, is_interrupted, is_completed,
                   cooking_context, step_spoken, announced_step, user_input,
                   intent_data, response, all_done_spoken, turn, voice,
                   script, files, database, saved, result>>

\* IntelligentCookingAgent.learn_from_interaction after an answered question:
\* its classify_intent logs the question, then the record is appended
IRecord ==
    /\ agent = "IntelligentCookingAgent"
    /\ pc = "record"
    /\ Len(cooking_context.questions_asked) < MaxHistory
    /\ \E intent \in HistoryIntents :
         LET reply2 == [kind |-> "content", json |-> JsonIntent(intent, {})]
             learned == intelligent_learn_from_interaction(
                            Session, <<"h","o","w"," ","l","o","n","g">>, reply2)
         IN  /\ SetSession(learned.session)
             /\ ai_intent_data' = reply2.json.value
    /\ pre' = Session
    /\ UNCHANGED <<agent, pc, recipe_steps, recipe_ingredients, recipe_name,
                   step_spoken, announced_step, user_input, intent_data,
                   response, all_done_spoken, turn, voice, script, files,
                   database, saved, result>>

HistoryInit ==
    /\ agent \in {"CookingAgent", "IntelligentCookingAgent"}
    /\ pc = "record"
    /\ recipe_steps = Toast.steps
    /\ recipe_ingredients = Toast.ingredients
    /\ recipe_name = Toast.name
    /\ current_step = 0
    /\ is_interrupted = FALSE
    /\ is_completed = FALSE
    /\ user_model = IF agent = "CookingAgent"
                    THEN InitUserModel ELSE InitIntelligentUserModel
    /\ cooking_context = IF agent = "CookingAgent"
                         THEN << >> ELSE InitCookingContext
    /\ step_spoken = FALSE
    /\ announced_step = -1
    /\ user_input = None
    /\ intent_data = NoIntentData
    /\ ai_intent_data = NoIntentData
    /\ response = None
    /\ all_done_spoken = FALSE
    /\ pre = Session
    /\ turn = NewTurn
    /\ voice = NoVoice
    /\ script = << >>
    /\ files = NoFiles
    /\ database = NoDatabase
    /\ saved = << >>
    /\ result = NoCall

HistoryNext ==
    \/ Record
    \/ IRecord

HistorySpec == HistoryInit /\ [][HistoryNext]_vars

(* ----------------------------- load_recipe ----------------------------- *)

\* A file is missing, or holds text that is no JSON document, or holds a JSON
\* object: a record of its keys.  A steps list holds objects, strings and
\* numbers, each with its kind; a string in memory is its text.
Missing == [kind |-> "missing"]
Malformed == [kind |-> "malformed"]

Obj(v) == [kind |-> "dict", v |-> v]
Text(text) == [kind |-> "str", v |-> text]
Num(n) == [kind |-> "int", v |-> n]

py_value(e) == IF e.kind = "str" THEN e.v ELSE e

\* the file save_recipe_for_voice_guidance writes for a recipe
Structured(r) ==
    [kind |-> "json",
     data |-> [recipe_name |-> r.name,
               steps |-> [i \in 1..Len(r.steps) |->
                            Obj([step_number |-> i, text |-> r.steps[i]])],
               ingredients |-> r.ingredients]]

\* the steps.json RecipeDatabase._save_recipe_files writes: no ingredients
StepsOnly(r) ==
    [kind |-> "json",
     data |-> [recipe_name |-> r.name,
               steps |-> [i \in 1..Len(r.steps) |->
                            Obj([step_number |-> i, text |-> r.steps[i]])]]]

\* the flat file of a recipe
Flat(r) ==
    [kind |-> "json",
     data |-> [name |-> r.name,
               instructions |-> [i \in 1..Len(r.steps) |-> Text(r.steps[i])],
               ingredients |-> r.ingredients]]

\* files with a steps list of other entries
PlainSteps(r) ==
    [kind |-> "json",
     data |-> [name |-> r.name,
               steps |-> [i \in 1..Len(r.steps) |-> Text(r.steps[i])],
               ingredients |-> r.ingredients]]
NumberSteps ==
    [kind |-> "json", data |-> [recipe_name |-> Toast.name,
                                steps |-> << Num(1), Num(2) >>]]
NoTextSteps ==
    [kind |-> "json",
     data |-> [recipe_name |-> Toast.name,
               steps |-> << Obj([step_number |-> 1]), Obj([step_number |-> 2]) >>]]
MixedSteps ==
    [kind |-> "json",
     data |-> [recipe_name |-> Toast.name,
               steps |-> << Obj([step_number |-> 1, text |-> Toast.steps[1]]),
                            Obj([step_number |-> 2]) >>]]

\* what may lie on disk as steps.json and as recipe.json
StepsFiles ==
    {Missing, Malformed, Structured(Toast), Structured(Pancakes),
     StepsOnly(Toast), PlainSteps(Toast), NumberSteps, NoTextSteps, MixedSteps}
RecipeFiles == {Missing, Malformed, Flat(Toast), Flat(Pancakes)}

FileNames == {"steps.json", "recipe.json"}

\* filename = None
NoFilename == "None"

\* recipe_data.get(key, default)
data_get(data, key, default) ==
    IF key \in DOMAIN data THEN data[key] ELSE default

\* "text" in step
text_in(e) ==
    IF e.kind = "dict" THEN "text" \in DOMAIN e.v
    ELSE str_in(<<"t","e","x","t">>, e.v)

\* step["text"] can be evaluated
has_text(e) == e.kind = "dict" /\ "text" \in DOMAIN e.v

\* the recipe fields of the agent
RecipeFields ==
    [recipe_name |-> recipe_name,
     recipe_steps |-> recipe_steps,
     recipe_ingredients |-> recipe_ingredients]

\* CookingAgent._load_ingredients_from_companion_file
_load_ingredients_from_companion_file(fs) ==
    IF fs["recipe.json"].kind = "json"
    THEN data_get(fs["recipe.json"].data, "ingredients", << >>)
    ELSE << >>

\* the body of the for loop of CookingAgent.load_recipe on one file: it
\* returns True, raises, or goes on to the next file
load_file(fields, fs, file_path) ==
    LET f == fs[file_path]
        go_on == [value |-> "continue", file |-> file_path, fields |-> fields]
        raise == [value |-> "raised", file |-> file_path, fields |-> fields]
    IN  IF f.kind # "json" THEN go_on
        ELSE IF "steps" \in DOMAIN f.data
        THEN LET steps == f.data.steps
             IN  IF Len(steps) > 0 /\ steps[1].kind = "int" THEN raise
                 ELSE IF Len(steps) > 0 /\ text_in(steps[1])
                 THEN IF \E i \in DOMAIN steps : ~has_text(steps[i])
                      THEN raise
                      ELSE [value |-> "True", file |-> file_path,
                            fields |->
                              [recipe_steps |->
                                  [i \in DOMAIN steps |-> steps[i].v.text],
                               recipe_name |->
                                  data_get(f.data, "recipe_name",
                                           <<"U","n","k","n","o","w","n"," ","R","e","c","i","p","e">>),
                               recipe_ingredients |->
                                  _load_ingredients_from_companion_file(fs)]]
                 ELSE [value |-> "True", file |-> file_path,
                       fields |->
                          [recipe_steps |->
                              [i \in DOMAIN steps |-> py_value(steps[i])],
                           recipe_name |->
                              data_get(f.data, "name", <<"U","n","k","n","o","w","n"," ","R","e","c","i","p","e">>),
                           recipe_ingredients |->
                              data_get(f.data, "ingredients", << >>)]]
        ELSE IF "instructions" \in DOMAIN f.data
        THEN [value |-> "True", file |-> file_path,
              fields |->
                 [recipe_steps |->
                     [i \in DOMAIN f.data.instructions |->
                         py_value(f.data.instructions[i])],
                  recipe_name |-> data_get(f.data, "name", <<"U","n","k","n","o","w","n"," ","R","e","c","i","p","e">>),
                  recipe_ingredients |->
                     data_get(f.data, "ingredients", << >>)]]
        ELSE go_on

RECURSIVE try_files(_, _, _)
\* for file_path in files_to_try: ...; return False
try_files(fields, fs, files_to_try) ==
    IF files_to_try = << >>
    THEN [value |-> "False", file |-> NoFilename, fields |-> fields]
    ELSE LET out == load_file(fields, fs, Head(files_to_try))
         IN  IF out.value = "continue"
             THEN try_files(fields, fs, Tail(files_to_try))
             ELSE out

\* CookingAgent.load_recipe forgetting the recipe it had when it fails
load_recipe_forgets(fields, fs, filename) ==
    LET out == try_files(fields, fs,
                         IF filename = NoFilename
                         THEN <<"steps.json", "recipe.json">>
                         ELSE <<filename>>)
    IN  IF out.value = "False"
        THEN [out EXCEPT !.fields.recipe_steps = << >>]
        ELSE out

\* CookingAgent.load_recipe
load_recipe(fields, fs, filename) ==
    try_files(fields, fs,
              IF filename = NoFilename
              THEN <<"steps.json", "recipe.json">>
              ELSE <<filename>>)

\* IntelligentCookingAgent.load_recipe: whatever is raised makes it return
\* False, after recipe_name was assigned when the file could be read
intelligent_load_recipe(fields, fs, filename) ==
    LET f == fs[filename]
    IN  IF f.kind # "json"
        THEN [value |-> "False", file |-> filename, fields |-> fields]
        ELSE LET steps == data_get(f.data, "steps", << >>)
                 named == [fields EXCEPT
                             !.recipe_name =
                                 data_get(f.data, "recipe_name",
                                          <<"U","n","k","n","o","w","n"," ","R","e","c","i","p","e">>)]
             IN  IF \E i \in DOMAIN steps : ~has_text(steps[i])
                 THEN [value |-> "False", file |-> filename, fields |-> named]
                 ELSE [value |-> "True", file |-> filename,
                       fields |->
                          [named EXCEPT
                             !.recipe_steps =
                                 [i \in DOMAIN steps |-> steps[i].v.text],
                             !.recipe_ingredients =
                                 data_get(f.data, "ingredients", << >>)]]

\* the calls of load_recipe made so far
calls_made == IF result.op = "load_recipe" THEN result.n ELSE 0

\* the record of a call of load_recipe and of the fields it found
LoadCall(filename, out) ==
    [op |-> "load_recipe", n |-> calls_made + 1, filename |-> filename,
     value |-> out.value, file |-> out.file,
     before |-> [fields |-> RecipeFields, current_step |-> current_step]]

SetRecipe(fields) ==
    /\ recipe_name' = fields.recipe_name
    /\ recipe_steps' = fields.recipe_steps
    /\ recipe_ingredients' = fields.recipe_ingredients

\* agent.load_recipe(filename), or agent.load_recipe()
LoadRecipe ==
    /\ agent = "CookingAgent"
    /\ pc = "new"
    /\ calls_made < MaxLoads
    /\ \E filename \in FileNames \cup {NoFilename} :
         LET out == load_recipe(RecipeFields, files, filename)
         IN  /\ SetRecipe(out.fields)
             /\ result' = LoadCall(filename, out)
    /\ UNCHANGED <<agent, pc, current_step, is_interrupted, is_completed,
                   user_model, cooking_context, step_spoken, announced_step,
                   user_input, intent_data, ai_intent_data, response,
                   all_done_spoken, pre, turn, voice, script, files, database,
                   saved>>

\* agent.load_recipe(filename) on an IntelligentCookingAgent
ILoadRecipe ==
    /\ agent = "IntelligentCookingAgent"
    /\ pc = "new"
    /\ calls_made < MaxLoads
    /\ \E filename \in FileNames :
         LET out == intelligent_load_recipe(RecipeFields, files, filename)
         IN  /\ SetRecipe(out.fields)
             /\ result' = LoadCall(filename, out)
    /\ UNCHANGED <<agent, pc, current_step, is_interrupted, is_completed,
                   user_model, cooking_context, step_spoken, announced_step,
                   user_input, intent_data, ai_intent_data, response,
                   all_done_spoken, pre, turn, voice, script, files, database,
                   saved>>

\* CookingAgent.run(): if not self.load_recipe(): return; else the greeting
RunLoad ==
    /\ agent = "CookingAgent"
    /\ pc = "new"
    /\ LET out == load_recipe(RecipeFields, files, NoFilename)
       IN  /\ SetRecipe(out.fields)
           /\ result' = LoadCall(NoFilename, out)
           /\ pc' = IF out.value = "True" THEN "top"
                    ELSE IF out.value = "False" THEN "returned"
                    ELSE "raised"
    /\ step_spoken' = FALSE
    /\ UNCHANGED <<agent, current_step, is_interrupted, is_completed,
                   user_model, cooking_context, announced_step, user_input,
                   intent_data, ai_intent_data, response, all_done_spoken,
                   pre, turn, voice, script, files, database, saved>>

LoadInit ==
    /\ agent \in {"CookingAgent", "IntelligentCookingAgent"}
    /\ pc = "new"
    /\ recipe_steps = << >>
    /\ recipe_ingredients = << >>
    /\ recipe_name = << >>
    /\ current_step = 0
    /\ is_interrupted = FALSE
    /\ is_completed = FALSE
    /\ user_model = IF agent = "CookingAgent"
                    THEN InitUserModel ELSE InitIntelligentUserModel
    /\ cooking_context = IF agent = "CookingAgent"
                         THEN << >> ELSE InitCookingContext
    /\ step_spoken = FALSE
    /\ announced_step = -1
    /\ user_input = None
    /\ intent_data = NoIntentData
    /\ ai_intent_data = NoIntentData
    /\ response = None
    /\ all_done_spoken = FALSE
    /\ pre = Session
    /\ turn = NewTurn
    /\ voice = NoVoice
    /\ script = << >>
    /\ \E steps_json \in StepsFiles :
       \E recipe_json \in RecipeFiles :
         files = [name \in FileNames |->
                    IF name = "steps.json" THEN steps_json ELSE recipe_json]
    /\ database = NoDatabase
    /\ saved = << >>
    /\ result = NoCall

LoadNext ==
    \/ LoadRecipe
    \/ ILoadRecipe
    \/ RunLoad
    \/ LoopTop

LoadSpec == LoadInit /\ [][LoadNext]_vars

(* --------------------- RecipeDatabase: save and load -------------------- *)

\* The two RecipeDatabase classes: database.py keeps the steps in a table of
\* their own, su_chef_clean.py keeps them as JSON text in the recipes row.
\* The tables hold their rows; recipe_id is AUTOINCREMENT and no row is ever
\* deleted.  The clock of CURRENT_TIMESTAMP counts seconds.
Modules == {"database", "su_chef_clean"}

EmptyDatabase(module) ==
    [module |-> module, recipes |-> << >>, steps |-> {}, history |-> << >>,
     now |-> 0]

RECURSIVE concat(_)
\* "".join(parts)
concat(parts) ==
    IF parts = << >> THEN << >> ELSE Head(parts) \o concat(Tail(parts))

RECURSIVE join(_, _)
\* sep.join(parts)
join(sep, parts) ==
    IF parts = << >> THEN << >>
    ELSE IF Len(parts) = 1 THEN parts[1]
    ELSE parts[1] \o sep \o join(sep, Tail(parts))

\* a str written without its escapes
encode_basestring_raw(s) == <<"\"">> \o s \o <<"\"">>

\* json.dumps of a str: between quotes, with ", \ and newline escaped
encode_basestring(s) ==
    LET esc(c) == IF c = "\"" THEN <<"\\", "\"">>
                  ELSE IF c = "\\" THEN <<"\\", "\\">>
                  ELSE IF c = "\n" THEN <<"\\", "n">>
                  ELSE IF c = "\t" THEN <<"\\", "t">>
                  ELSE <<c>>
    IN  <<"\"">> \o concat([i \in 1..Len(s) |-> esc(s[i])]) \o <<"\"">>

\* json.dumps of a list of str, with the separator ', '
json_dumps(list) ==
    <<"[">> \o join(<<",", " ">>,
                    [i \in 1..Len(list) |-> encode_basestring(list[i])])
            \o <<"]">>

\* what a scan gives: the value and the index after it, or JSONDecodeError
Scanned(value, end) == [error |-> FALSE, value |-> value, end |-> end]
JSONDecodeError == [error |-> TRUE, value |-> << >>, end |-> 0]

RECURSIVE skip_whitespace(_, _)
skip_whitespace(t, i) ==
    IF i <= Len(t) /\ t[i] \in {" ", "\n", "\t"}
    THEN skip_whitespace(t, i + 1) ELSE i

RECURSIVE scanstring(_, _, _)
\* json.decoder.scanstring: the str whose opening quote lies before t[i]
scanstring(t, i, chunks) ==
    IF i > Len(t) THEN JSONDecodeError
    ELSE IF t[i] = "\"" THEN Scanned(chunks, i + 1)
    ELSE IF t[i] \in {"\n", "\t"} THEN JSONDecodeError
    ELSE IF t[i] # "\\" THEN scanstring(t, i + 1, Append(chunks, t[i]))
    ELSE IF i + 1 > Len(t) THEN JSONDecodeError
    ELSE IF t[i + 1] \in {"\"", "\\", "/"}
         THEN scanstring(t, i + 2, Append(chunks, t[i + 1]))
    ELSE IF t[i + 1] = "n" THEN scanstring(t, i + 2, Append(chunks, "\n"))
    ELSE IF t[i + 1] = "t" THEN scanstring(t, i + 2, Append(chunks, "\t"))
    ELSE JSONDecodeError

RECURSIVE JSONArray(_, _, _)
\* json.decoder.JSONArray on a list of str: t[i] starts a value
JSONArray(t, i, values) ==
    IF i > Len(t) \/ t[i] # "\"" THEN JSONDecodeError
    ELSE LET s == scanstring(t, i + 1, << >>)
             j == skip_whitespace(t, s.end)
         IN  IF s.error \/ j > Len(t) THEN JSONDecodeError
             ELSE IF t[j] = "]"
                  THEN Scanned(Append(values, s.value), j + 1)
             ELSE IF t[j] = ","
                  THEN JSONArray(t, skip_whitespace(t, j + 1),
                                 Append(values, s.value))
             ELSE JSONDecodeError

\* json.loads of the text of a list of str; text after the list is an error
json_loads(t) ==
    LET i == skip_whitespace(t, 1)
        j == skip_whitespace(t, i + 1)
        a == IF i > Len(t) \/ t[i] # "[" \/ j > Len(t) THEN JSONDecodeError
             ELSE IF t[j] = "]" THEN Scanned(<< >>, j + 1)
             ELSE JSONArray(t, j, << >>)
    IN  IF a.error \/ skip_whitespace(t, a.end) # Len(t) + 1
        THEN JSONDecodeError ELSE a

\* the steps and ingredients a recipe may have: none, one, several, and
\* texts with the characters that JSON escapes
SomeIngredients ==
    { << >>,
      << <<"b","r","e","a","d">> >>,
      << <<"6", "\"", " ", "b", "u", "n">>, <<"a", "\\", "n">>,
         <<"a", "\"", ",", " ", "\"", "b">> >> }
SomeSteps ==
    { << >>,
      << <<"P","u","t"," ","b","r","e","a","d"," ","i","n"," ","t","o","a","s","t","e","r">> >>,
      << <<"P","u","t">>, <<"C", "u", "t", " ", "6", "\"">>, <<"B","a","k","e">> >> }

\* recipe_data as RecipeGenerator.parse_recipe makes it: database.py reads
\* recipe_data['instructions'], su_chef_clean.py recipe_data['steps']
RecipeData(module) ==
    IF module = "database"
    THEN {[name |-> name, meal_type |-> <<"d","i","n","n","e","r">>, cooking_time |-> 30,
           skill_level |-> <<"b","e","g","i","n","n","e","r">>, dietary_restrictions |-> None,
           ingredients |-> ingredients, instructions |-> steps] :
             name \in {Toast.name, Pancakes.name},
             ingredients \in SomeIngredients, steps \in SomeSteps}
    ELSE {[name |-> name, meal_type |-> <<"d","i","n","n","e","r">>, cooking_time |-> 30,
           skill_level |-> <<"b","e","g","i","n","n","e","r">>, dietary_restrictions |-> None,
           ingredients |-> ingredients, steps |-> steps] :
             name \in {Toast.name, Pancakes.name},
             ingredients \in SomeIngredients, steps \in SomeSteps}

TheUser == 1

\* the files of a recipe under recipes/<recipe_id>/
recipe_files(recipe_id, recipe_data) ==
    (<<"recipes", recipe_id, "recipe.json">> :>
        [kind |-> "json", data |-> recipe_data])
    @@ (<<"recipes", recipe_id, "steps.json">> :>
        [kind |-> "json",
         data |-> [recipe_name |-> recipe_data.name,
                   steps |-> [i \in 1..Len(recipe_data.instructions) |->
                                Obj([step_number |-> i,
                                     text |-> recipe_data.instructions[i]])]]])
    @@ (<<"recipes", recipe_id, "metadata.json">> :>
        [kind |-> "json",
         data |-> [name |-> recipe_data.name,
                   meal_type |-> recipe_data.meal_type,
                   cooking_time |-> recipe_data.cooking_time,
                   skill_level |-> recipe_data.skill_level,
                   dietary_restrictions |-> recipe_data.dietary_restrictions,
                   total_steps |-> Len(recipe_data.instructions)]])

\* database.py: INSERT INTO recipes fails on UNIQUE(name, created_at)
unique_name_created_at(db, name, created_at) ==
    \A i \in 1..Len(db.recipes) :
        ~(db.recipes[i].name = name /\ db.recipes[i].created_at = created_at)

\* RecipeDatabase.save_recipe of database.py at the second created_at: the
\* database after it and the id it returns, or the IntegrityError it raises
save_recipe(db, recipe_data, user_id, created_at) ==
    LET recipe_id == Len(db.recipes) + 1
        row == [recipe_id |-> recipe_id, name |-> recipe_data.name,
                meal_type |-> recipe_data.meal_type,
                cooking_time |-> recipe_data.cooking_time,
                skill_level |-> recipe_data.skill_level,
                dietary_restrictions |-> recipe_data.dietary_restrictions,
                ingredients |-> json_dumps(recipe_data.ingredients),
                created_at |-> created_at]
        step_rows == {[recipe_id |-> recipe_id, step_number |-> step_num,
                       step_text |-> recipe_data.instructions[step_num],
                       estimated_time |-> None, tips |-> None] :
                         step_num \in 1..Len(recipe_data.instructions)}
    IN  IF ~unique_name_created_at(db, recipe_data.name, created_at)
        THEN [raised |-> TRUE, value |-> 0,
              db |-> [db EXCEPT !.now = created_at]]
        ELSE [raised |-> FALSE, value |-> recipe_id,
              db |-> [db EXCEPT
                        !.recipes = Append(@, row),
                        !.steps = @ \cup step_rows,
                        !.history = Append(@, [user_id |-> user_id,
                                               recipe_id |-> recipe_id,
                                               cooked |-> FALSE,
                                               liked |-> FALSE,
                                               cooked_date |-> created_at]),
                        !.now = created_at]]

\* RecipeDatabase.save_recipe of su_chef_clean.py
clean_save_recipe(db, recipe_data, user_id, created_at) ==
    LET recipe_id == Len(db.recipes) + 1
        row == [recipe_id |-> recipe_id, name |-> recipe_data.name,
                meal_type |-> recipe_data.meal_type,
                cooking_time |-> recipe_data.cooking_time,
                skill_level |-> recipe_data.skill_level,
                dietary_restrictions |-> recipe_data.dietary_restrictions,
                ingredients |-> json_dumps(recipe_data.ingredients),
                steps |-> json_dumps(recipe_data.steps),
                created_at |-> created_at]
    IN  [raised |-> FALSE, value |-> recipe_id,
         db |-> [db EXCEPT
                   !.recipes = Append(@, row),
                   !.history = Append(@, [user_id |-> user_id,
                                          recipe_id |-> recipe_id,
                                          cooked |-> FALSE,
                                          liked |-> FALSE,
                                          cooked_date |-> created_at]),
                   !.now = created_at]]

RECURSIVE order_by_step_number(_)
\* ORDER BY step_number
order_by_step_number(rows) ==
    IF rows = {} THEN << >>
    ELSE LET first == CHOOSE r \in rows :
                          \A q \in rows : r.step_number <= q.step_number
         IN  <<first>> \o order_by_step_number(rows \ {first})

\* WHERE recipe_id = ?
recipe_rows(db, recipe_id) ==
    {i \in 1..Len(db.recipes) : db.recipes[i].recipe_id = recipe_id}

\* RecipeDatabase.get_recipe_details of database.py: None, or the recipe row
\* with its COUNT of steps and the step rows
get_recipe_details(db, recipe_id) ==
    IF recipe_rows(db, recipe_id) = {} THEN [found |-> FALSE, raised |-> FALSE]
    ELSE LET r == db.recipes[CHOOSE i \in recipe_rows(db, recipe_id) : TRUE]
             own == {s \in db.steps : s.recipe_id = recipe_id}
             steps == order_by_step_number(own)
         IN  [found |-> TRUE, raised |-> FALSE,
              value |->
                [recipe |-> <<r.recipe_id, r.name, r.meal_type, r.cooking_time,
                              r.skill_level, r.dietary_restrictions,
                              r.ingredients, r.created_at, Cardinality(own)>>,
                 steps |-> [i \in 1..Len(steps) |->
                              <<steps[i].step_number, steps[i].step_text,
                                steps[i].estimated_time, steps[i].tips>>]]]

\* RecipeDatabase.get_recipe_details of su_chef_clean.py: None, or the dict
\* of the row with ingredients and steps decoded
clean_get_recipe_details(db, recipe_id) ==
    IF recipe_rows(db, recipe_id) = {} THEN [found |-> FALSE, raised |-> FALSE]
    ELSE LET r == db.recipes[CHOOSE i \in recipe_rows(db, recipe_id) : TRUE]
             ingredients == json_loads(r.ingredients)
             steps == json_loads(r.steps)
         IN  IF ingredients.error \/ steps.error
             THEN [found |-> TRUE, raised |-> TRUE]
             ELSE [found |-> TRUE, raised |-> FALSE,
                   value |->
                     [name |-> r.name, meal_type |-> r.meal_type,
                      cooking_time |-> r.cooking_time,
                      skill_level |-> r.skill_level,
                      dietary_restrictions |-> r.dietary_restrictions,
                      ingredients |-> ingredients.value,
                      steps |-> steps.value]]

\* t[i] of Python on a tuple
py_item(t, i) == t[i + 1]

\* the agent fields, which the database calls leave alone
AgentUnchanged ==
    UNCHANGED <<agent, pc, recipe_steps, recipe_ingredients, recipe_name,
                current_step, is_interrupted, is_completed, user_model,
                cooking_context, step_spoken, announced_step, user_input,
                intent_data, ai_intent_data, response, all_done_spoken, pre,
                turn, voice, script>>

\* db.save_recipe(recipe_data, user_id) of database.py, with the recipe files
SaveRecipe ==
    /\ database.module = "database"
    /\ Len(database.recipes) < MaxSaves
    /\ \E recipe_data \in RecipeData("database") :
       \E created_at \in {database.now, database.now + 1} :
         LET out == save_recipe(database, recipe_data, TheUser, created_at)
         IN  /\ created_at <= MaxSeconds
             /\ database' = out.db
             /\ result' = [op |-> "save_recipe", raised |-> out.raised,
                           value |-> out.value]
             /\ saved' = IF out.raised THEN saved
                         ELSE Append(saved, recipe_data)
             /\ files' = IF out.raised THEN files
                         ELSE recipe_files(out.value, recipe_data) @@ files
    /\ AgentUnchanged

\* db.save_recipe(recipe_data, user_id) of su_chef_clean.py
CleanSaveRecipe ==
    /\ database.module = "su_chef_clean"
    /\ Len(database.recipes) < MaxSaves
    /\ \E recipe_data \in RecipeData("su_chef_clean") :
       \E created_at \in {database.now, database.now + 1} :
         LET out == clean_save_recipe(database, recipe_data, TheUser,
                                      created_at)
         IN  /\ created_at <= MaxSeconds
             /\ database' = out.db
             /\ result' = [op |-> "save_recipe", raised |-> out.raised,
                           value |-> out.value]
             /\ saved' = Append(saved, recipe_data)
    /\ UNCHANGED files
    /\ AgentUnchanged

\* db.get_recipe_details(recipe_id) of database.py
GetRecipeDetails ==
    /\ database.module = "database"
    /\ \E recipe_id \in 1..(Len(database.recipes) + 1) :
         result' = [op |-> "get_recipe_details", recipe_id |-> recipe_id,
                    out |-> get_recipe_details(database, recipe_id)]
    /\ UNCHANGED <<files, database, saved>>
    /\ AgentUnchanged

\* db.get_recipe_details(recipe_id) of su_chef_clean.py
CleanGetRecipeDetails ==
    /\ database.module = "su_chef_clean"
    /\ \E recipe_id \in 1..(Len(database.recipes) + 1) :
         result' = [op |-> "get_recipe_details", recipe_id |-> recipe_id,
                    out |-> clean_get_recipe_details(database, recipe_id)]
    /\ UNCHANGED <<files, database, saved>>
    /\ AgentUnchanged

DbInit ==
    /\ agent = "CookingAgent"
    /\ pc = "new"
    /\ recipe_steps = << >>
    /\ recipe_ingredients = << >>
    /\ recipe_name = << >>
    /\ current_step = 0
    /\ is_interrupted = FALSE
    /\ is_completed = FALSE
    /\ user_model = InitUserModel
    /\ cooking_context = << >>
    /\ step_spoken = FALSE
    /\ announced_step = -1
    /\ user_input = None
    /\ intent_data = NoIntentData
    /\ ai_intent_data = NoIntentData
    /\ response = None
    /\ all_done_spoken = FALSE
    /\ pre = Session
    /\ turn = NewTurn
    /\ voice = NoVoice
    /\ script = << >>
    /\ files = NoFiles
    /\ \E module \in Modules : database = EmptyDatabase(module)
    /\ saved = << >>
    /\ result = NoCall

DbNext ==
    \/ SaveRecipe
    \/ CleanSaveRecipe
    \/ GetRecipeDetails
    \/ CleanGetRecipeDetails

DbSpec == DbInit /\ [][DbNext]_vars

(* ---------------- CookingAgent: one turn on an utterance ---------------- *)

\* a recipe with a step whose text contains "heat"
Roast ==
    [name |-> <<"R","o","a","s","t">>,
     steps |-> << <<"P","r","e","h","e","a","t"," ","t","h","e"," ","o","v","e","n">>, <<"R","o","a","s","t"," ","f","o","r"," ","a","n"," ","h","o","u","r">> >>,
     ingredients |-> << <<"c","h","i","c","k","e","n">> >>]

\* run() has heard the utterance, on any step of a loaded recipe; the
\* utterance of the turn is kept in script
AskInit ==
    /\ agent = "CookingAgent"
    /\ pc = "classify"
    /\ \E r \in {Toast, Pancakes, Roast} :
         /\ recipe_steps = r.steps
         /\ recipe_ingredients = r.ingredients
         /\ recipe_name = r.name
    /\ current_step \in 0..(Len(recipe_steps) - 1)
    /\ is_interrupted = FALSE
    /\ is_completed = FALSE
    /\ user_model = InitUserModel
    /\ cooking_context = << >>
    /\ step_spoken = TRUE
    /\ announced_step = current_step
    /\ user_input \in Utterances
    /\ intent_data = NoIntentData
    /\ ai_intent_data = NoIntentData
    /\ response = None
    /\ all_done_spoken = FALSE
    /\ pre = Session
    /\ turn = NewTurn
    /\ voice = NoVoice
    /\ script = <<user_input>>
    /\ files = NoFiles
    /\ database = NoDatabase
    /\ saved = << >>
    /\ result = NoCall

AskNext ==
    \/ ClassifyInRun
    \/ GetAiResponse

AskSpec == AskInit /\ [][AskNext]_vars

(* ------------------ RecipeDatabase: the user's history ------------------ *)

\* the users add_user has made
Users == {1, 2}

\* RecipeDatabase.mark_recipe_cooked at the time now: UPDATE
\* user_recipe_history SET cooked = TRUE, liked = ?, cooked_date = ?
\* WHERE user_id = ? AND recipe_id = ?
mark_recipe_cooked(db, user_id, recipe_id, liked, now) ==
    [db EXCEPT
       !.history = [i \in 1..Len(@) |->
                      IF @[i].user_id = user_id /\ @[i].recipe_id = recipe_id
                      THEN [@[i] EXCEPT !.cooked = TRUE,
                                        !.liked = liked,
                                        !.cooked_date = now]
                      ELSE @[i]],
       !.now = now]

\* name LIKE '%query%': LIKE ignores the case of ASCII letters
like(query, name) == str_in(str_lower(query), str_lower(name))

\* the ids of the recipes search_recipes selects: by name, or the recipes of
\* the user's history rows with cooked (or liked) set
search_recipes(db, query, user_id, search_type) ==
    IF search_type = "name"
    THEN {db.recipes[i].recipe_id : i \in {j \in 1..Len(db.recipes) :
                                             like(query, db.recipes[j].name)}}
    ELSE {db.history[i].recipe_id : i \in
            {j \in 1..Len(db.history) :
               /\ db.history[j].user_id = user_id
               /\ IF search_type = "cooked"
                  THEN db.history[j].cooked ELSE db.history[j].liked
               /\ recipe_rows(db, db.history[j].recipe_id) # {}}}

\* the recipes the users save here
HistoryRecipes ==
    {rd \in RecipeData("database") :
       /\ rd.ingredients = << <<"b","r","e","a","d">> >>
       /\ rd.instructions = << <<"P","u","t"," ","b","r","e","a","d"," ","i","n"," ","t","o","a","s","t","e","r">> >>}

\* db.save_recipe(recipe_data, user_id) by one of the users
UserSaves ==
    /\ Len(database.recipes) < MaxSaves
    /\ \E user_id \in Users :
       \E recipe_data \in HistoryRecipes :
       \E created_at \in {database.now, database.now + 1} :
         LET out == save_recipe(database, recipe_data, user_id, created_at)
         IN  /\ created_at <= MaxSeconds
             /\ database' = out.db
             /\ result' = [op |-> "save_recipe", user_id |-> user_id,
                           raised |-> out.raised, value |-> out.value]
             /\ saved' = IF out.raised THEN saved
                         ELSE Append(saved, recipe_data)
             /\ files' = IF out.raised THEN files
                         ELSE recipe_files(out.value, recipe_data) @@ files
    /\ AgentUnchanged

\* db.mark_recipe_cooked(user_id, recipe_id, liked) on a recipe the user
\* selected: one of their own or one that a search by name found
MarkRecipeCooked ==
    /\ \E user_id \in Users :
       \E recipe_id \in search_recipes(database, << >>, user_id, "name") :
       \E liked \in BOOLEAN :
       \E now \in {database.now, database.now + 1} :
         /\ now <= MaxSeconds
         /\ database' = mark_recipe_cooked(database, user_id, recipe_id,
                                           liked, now)
         /\ result' = [op |-> "mark_recipe_cooked", user_id |-> user_id,
                       recipe_id |-> recipe_id, liked |-> liked,
                       before |-> database.history]
    /\ UNCHANGED <<files, saved>>
    /\ AgentUnchanged

\* db.search_recipes(query, user_id, search_type)
SearchRecipes ==
    /\ \E user_id \in Users :
       \E search_type \in {"name", "cooked", "liked"} :
       \E query \in {Toast.name, <<"a">>} :
         result' = [op |-> "search_recipes", user_id |-> user_id,
                    search_type |-> search_type,
                    value |-> search_recipes(database, query, user_id,
                                             search_type)]
    /\ UNCHANGED <<files, database, saved>>
    /\ AgentUnchanged

UsersInit ==
    /\ DbInit
    /\ database.module = "database"

UsersNext ==
    \/ UserSaves
    \/ MarkRecipeCooked
    \/ SearchRecipes

UsersSpec == UsersInit /\ [][UsersNext]_vars

(* -------------- SuChef, SuChefManager: voice guidance ------------------ *)

\* recipe_data of a recipe, as process_recipe makes it
recipe_data_of(r) ==
    [name |-> r.name, meal_type |-> <<"d","i","n","n","e","r">>, cooking_time |-> 30,
     skill_level |-> <<"b","e","g","i","n","n","e","r">>, dietary_restrictions |-> None,
     ingredients |-> r.ingredients, instructions |-> r.steps]

\* the recipe in a value of get_recipe_details: recipe[1], step[1] of each
\* step row and json.loads(recipe[6])
recipe_of_details(value) ==
    [name |-> py_item(value.recipe, 1),
     steps |-> [i \in 1..Len(value.steps) |-> py_item(value.steps[i], 1)],
     ingredients |-> json_loads(py_item(value.recipe, 6)).value]

\* save_recipe_for_voice_guidance of su_chef.py writes the ingredients into
\* steps.json, prepare_recipe_for_voice_guidance of su_chef_manager.py not
steps_json(class, value) ==
    IF class = "SuChef" THEN Structured(recipe_of_details(value))
    ELSE StepsOnly(recipe_of_details(value))

\* the application object and its last start_voice_guidance_workflow: begin
\* is the agent's state when the session began
Workflow(class, current_recipe_id) ==
    [op |-> "start_voice_guidance_workflow", class |-> class,
     user_id |-> TheUser, current_recipe_id |-> current_recipe_id,
     temp_recipe_data |-> current_recipe_id = -1,
     sessions |-> 0, begin |-> Session, raised |-> FALSE,
     offered |-> FALSE, saved_temp |-> FALSE]

\* start_voice_guidance_workflow up to the loop of run(), on a saved recipe:
\* the recipe is written to steps.json, the agent object is made if there
\* is none, load_recipe() and run() load the file; run() assigns no field
StartGuidance ==
    /\ pc \in {"new", "menu"}
    /\ result.current_recipe_id # -1
    /\ result.sessions < MaxSessions
    /\ LET details == get_recipe_details(database, result.current_recipe_id)
           fs == [name \in FileNames |->
                    IF name = "steps.json"
                    THEN steps_json(result.class, details.value)
                    ELSE files[name]]
           out == load_recipe(RecipeFields, fs, NoFilename)
       IN  /\ details.found
           /\ files' = fs
           /\ out.value = "True"
           /\ SetRecipe(out.fields)
    /\ step_spoken' = FALSE
    /\ all_done_spoken' = FALSE
    /\ ForgetTurn
    /\ result' = [result EXCEPT !.sessions = @ + 1, !.begin = Session,
                                !.raised = FALSE, !.offered = FALSE,
                                !.saved_temp = FALSE]
    /\ pc' = "top"
    /\ UNCHANGED <<agent, announced_step, current_step, is_interrupted,
                   is_completed, user_model, cooking_context, voice, script,
                   database, saved>>

\* start_voice_guidance_workflow of su_chef.py on a generated recipe that is
\* not saved yet: process_recipe returns no 'ingredients_json' and no 'steps',
\* the KeyError leaves the workflow before a session begins
StartTemporary ==
    /\ pc \in {"new", "menu"}
    /\ result.class = "SuChef"
    /\ result.current_recipe_id = -1
    /\ result' = [result EXCEPT !.begin = Session, !.raised = TRUE,
                                !.offered = FALSE, !.saved_temp = FALSE]
    /\ pc' = "menu"
    /\ UNCHANGED <<agent, recipe_steps, recipe_ingredients, recipe_name,
                   current_step, is_interrupted, is_completed, user_model,
                   cooking_context, step_spoken, announced_step, user_input,
                   intent_data, ai_intent_data, response, all_done_spoken,
                   pre, turn, voice, script, files, database, saved>>

\* the lines of su_chef.py after run(): the prompt when is_completed, then
\* mark_recipe_cooked with False and, for a favourite, once more with True
EndGuidance ==
    /\ pc = "done"
    /\ result.class = "SuChef"
    /\ IF is_completed
       THEN \E cooked \in BOOLEAN : \E favorite \in BOOLEAN :
              LET db1 == mark_recipe_cooked(database, result.user_id,
                             result.current_recipe_id, FALSE, database.now)
                  db2 == mark_recipe_cooked(db1, result.user_id,
                             result.current_recipe_id, TRUE, database.now)
              IN  database' = IF ~cooked THEN database
                              ELSE IF favorite THEN db2 ELSE db1
       ELSE UNCHANGED database
    /\ result' = [result EXCEPT !.offered = is_completed]
    /\ pc' = "menu"
    /\ UNCHANGED <<agent, recipe_steps, recipe_ingredients, recipe_name,
                   current_step, is_interrupted, is_completed, user_model,
                   cooking_context, step_spoken, announced_step, user_input,
                   intent_data, ai_intent_data, response, all_done_spoken,
                   pre, turn, voice, script, files, saved>>

\* the lines of su_chef_manager.py after run(): the prompt when not
\* is_interrupted, then mark_recipe_cooked with the answer on liking it
ManagerEndGuidance ==
    /\ pc = "done"
    /\ result.class = "SuChefManager"
    /\ IF ~is_interrupted
       THEN \E mark_cooked \in BOOLEAN : \E liked \in BOOLEAN :
              database' = IF mark_cooked
                          THEN mark_recipe_cooked(database, result.user_id,
                                   result.current_recipe_id, liked,
                                   database.now)
                          ELSE database
       ELSE UNCHANGED database
    /\ result' = [result EXCEPT !.offered = ~is_interrupted]
    /\ pc' = "menu"
    /\ UNCHANGED <<agent, recipe_steps, recipe_ingredients, recipe_name,
                   current_step, is_interrupted, is_completed, user_model,
                   cooking_context, step_spoken, announced_step, user_input,
                   intent_data, ai_intent_data, response, all_done_spoken,
                   pre, turn, voice, script, files, saved>>

\* an application whose user has saved a recipe and selected it, or (SuChef)
\* has generated one without saving it; no guided session has run
GuidanceInit ==
    /\ agent = "CookingAgent"
    /\ pc = "new"
    /\ recipe_steps = << >>
    /\ recipe_ingredients = << >>
    /\ recipe_name = << >>
    /\ current_step = 0
    /\ is_interrupted = FALSE
    /\ is_completed = FALSE
    /\ user_model = InitUserModel
    /\ cooking_context = << >>
    /\ step_spoken = FALSE
    /\ announced_step = -1
    /\ user_input = None
    /\ intent_data = NoIntentData
    /\ ai_intent_data = NoIntentData
    /\ response = None
    /\ all_done_spoken = FALSE
    /\ pre = Session
    /\ turn = NewTurn
    /\ voice = NoVoice
    /\ script = << >>
    /\ files = [name \in FileNames |-> Missing]
    /\ \E r \in {Toast} :
         /\ database =
               save_recipe(EmptyDatabase("database"), recipe_data_of(r),
                           TheUser, 0).db
         /\ saved = << recipe_data_of(r) >>
    /\ \E class \in {"SuChef", "SuChefManager"} :
       \E current_recipe_id \in (IF class = "SuChef" THEN {1, -1} ELSE {1}) :
         result = Workflow(class, current_recipe_id)

GuidanceNext ==
    \/ StartGuidance
    \/ StartTemporary
    \/ LoopTop
    \/ Listen
    \/ ClassifyInRun
    \/ GetAiResponse
    \/ EndGuidance
    \/ ManagerEndGuidance

GuidanceSpec == GuidanceInit /\ [][GuidanceNext]_vars

(* ------------------ SuChef: a further guided session ------------------- *)

\* start_voice_guidance_workflow on an agent object that has run before:
\* initialize_voice_agent keeps the object, load_recipe() loads the recipe
\* file and run() starts; nothing else of the object is assigned
RunAgain ==
    /\ agent = "CookingAgent"
    /\ pc = "done"
    /\ \E r \in Recipes :
         /\ recipe_steps' = r.steps
         /\ recipe_ingredients' = r.ingredients
         /\ recipe_name' = r.name
    /\ step_spoken' = FALSE
    /\ all_done_spoken' = FALSE
    /\ ForgetTurn
    /\ pc' = "top"
    /\ UNCHANGED <<agent, announced_step, current_step, is_interrupted,
                   is_completed, user_model, cooking_context>>
    /\ UNCHANGED <<voice, script>>
    /\ UNCHANGED <<files, database, saved, result>>

(* --------------------------- specification ---------------------------- *)

\* the object as __init__ leaves it
Constructed ==
    /\ agent \in {"CookingAgent", "IntelligentCookingAgent"}
    /\ recipe_steps = << >>
    /\ recipe_ingredients = << >>
    /\ recipe_name = << >>
    /\ current_step = 0
    /\ is_interrupted = FALSE
    /\ is_completed = FALSE
    /\ user_model = IF agent = "CookingAgent"
                    THEN InitUserModel ELSE InitIntelligentUserModel
    /\ cooking_context = IF agent = "CookingAgent"
                         THEN << >> ELSE InitCookingContext
    /\ step_spoken = FALSE
    /\ announced_step = -1
    /\ intent_data = NoIntentData
    /\ ai_intent_data = NoIntentData
    /\ response = None
    /\ all_done_spoken = FALSE
    /\ pre = Session
    /\ turn = NewTurn
    /\ voice = NoVoice
    /\ script = << >>
    /\ files = NoFiles
    /\ database = NoDatabase
    /\ saved = << >>
    /\ result = NoCall

Init ==
    /\ Constructed
    /\ pc = "new"
    /\ user_input = None

Next ==
    \/ Run
    \/ LoopTop
    \/ Listen
    \/ ClassifyInRun
    \/ GetAiResponse
    \/ IRun
    \/ ILoopTop
    \/ IListen
    \/ IRespond

Spec == Init /\ [][Next]_vars

\* sessions of one CookingAgent object, one after the other
ReuseNext ==
    \/ Next
    \/ RunAgain

ReuseSpec == Init /\ [][ReuseNext]_vars

\* a VoiceAgent object as __init__ leaves it
VoiceInit ==
    /\ agent = "VoiceAgent"
    /\ pc = "new"
    /\ recipe_steps = << >>
    /\ recipe_ingredients = << >>
    /\ recipe_name = << >>
    /\ current_step = 0
    /\ is_interrupted = FALSE
    /\ is_completed = FALSE
    /\ user_model = << >>
    /\ cooking_context = << >>
    /\ step_spoken = FALSE
    /\ announced_step = -1
    /\ user_input = None
    /\ intent_data = NoIntentData
    /\ ai_intent_data = NoIntentData
    /\ response = None
    /\ all_done_spoken = FALSE
    /\ pre = Session
    /\ turn = NewTurn
    /\ voice = NoVoice
    /\ script = << >>
    /\ files = NoFiles
    /\ database = NoDatabase
    /\ saved = << >>
    /\ result = NoCall

VoiceNext ==
    \/ VoiceRun
    \/ VoiceReady
    \/ VoiceStep
    \/ VoiceConfirm
    \/ VoiceFinal

VoiceSpec == VoiceInit /\ [][VoiceNext]_vars

\* classify_intent called on every utterance with every reply
ClassifyInit ==
    /\ Constructed
    /\ pc = "call"
    /\ user_input \in Utterances

ClassifyNext ==
    \/ ClassifyCall
    \/ IClassifyCall

ClassifySpec == ClassifyInit /\ [][ClassifyNext]_vars

(* ------------- CookingAgent: a session with its navigations ------------ *)

\* response = self.get_ai_response(user_input) and the rest of the loop
\* body; script is the log of the NAVIGATION intents get_ai_response handled
LogRespond ==
    /\ agent = "CookingAgent"
    /\ pc = "respond"
    /\ \E reply \in SessionReplies : RespondOn(reply)
    /\ script' = IF ai_intent_data'.intent = NAVIGATION
                 THEN Append(script, NAVIGATION) ELSE script
    /\ pc' = "top"
    /\ user_input' = None
    /\ intent_data' = NoIntentData
    /\ UNCHANGED <<agent, recipe_steps, recipe_ingredients, recipe_name,
                   all_done_spoken, pre, voice>>
    /\ UNCHANGED <<files, database, saved, result>>

NavInit ==
    /\ Init
    /\ agent = "CookingAgent"

NavNext ==
    \/ Run
    \/ LoopTop
    \/ Listen
    \/ ClassifyInRun
    \/ LogRespond

NavSpec == NavInit /\ [][NavNext]_vars

(* ------------------------------ claims -------------------------------- *)

\* a turn of CookingAgent in which get_ai_response handled this intent
Handled(intent) ==
    /\ agent = "CookingAgent"
    /\ turn.handled
    /\ ai_intent_data.intent = intent

\* C1: in every state of a CookingAgent session the step index lies between
\* 0 and the number of steps of the recipe
C1_StepIndexInRange ==
    agent = "CookingAgent" =>
        0 <= current_step /\ current_step <= Len(recipe_steps)

\* a NAVIGATION turn has moved a three-step session on from its first step
C1_Witness ==
    /\ Handled(NAVIGATION)
    /\ Len(recipe_steps) = 3
    /\ pre.current_step = 0
    /\ current_step = 1

\* C2: interrupted and completed are never both true, and a NAVIGATION turn
\* on the last step leaves exactly one of them true
C2_FlagsMutuallyExclusive ==
    /\ ~(is_interrupted /\ is_completed)
    /\ (Handled(NAVIGATION) /\ pre.current_step = Len(recipe_steps) - 1)
          => (is_interrupted # is_completed)

\* C3: a NAVIGATION turn on the last step sets completed and keeps the step
\* index; on an earlier step it adds one to the index and sets neither flag
C3_NavigationEffect ==
    Handled(NAVIGATION) =>
        IF pre.current_step = Len(recipe_steps) - 1
        THEN is_completed /\ current_step = pre.current_step
        ELSE /\ current_step = pre.current_step + 1
             /\ ~is_completed
             /\ ~is_interrupted

\* a NAVIGATION turn on the last step of the two-step recipe
C3_Witness ==
    /\ Handled(NAVIGATION)
    /\ Len(recipe_steps) = 2
    /\ pre.current_step = 1
    /\ is_completed

\* C4: once a terminal flag is true the next step of run() leaves the loop:
\* nothing more is listened to or classified and the session does not change
C4_TerminalEndsLoop ==
    [][(is_interrupted \/ is_completed) =>
          /\ pc' = "done"
          /\ Session' = Session
          /\ user_input' = user_input
          /\ turn'.classified = turn.classified]_vars

\* the loop has been left on a flag raised by a handled turn
C4_Witness ==
    /\ pc = "done"
    /\ is_interrupted
    /\ turn.handled
    /\ current_step < Len(recipe_steps)

\* C5: a STOP turn sets interrupted, leaves completed false and the step index
\* as it was, and the session ends without the closing announcement
C5_StopEffect ==
    Handled(STOP) =>
        /\ is_interrupted
        /\ ~is_completed
        /\ current_step = pre.current_step
        /\ ~all_done_spoken
        /\ pc \in {"top", "done"}
        /\ ~loop_condition(Session, recipe_steps)

\* a session ended by a STOP turn after its first step
C5_Witness ==
    /\ Handled(STOP)
    /\ pc = "done"
    /\ current_step > 0

\* C6: classify_intent always hands an intent to its caller, whatever the
\* completion service did
C6_AlwaysAnIntent ==
    pc = "returned" => has_intent(intent_data)

\* C7: the intent classify_intent returns is one of the ten labels
C7_IntentIsALabel ==
    (pc = "returned" /\ has_intent(intent_data)) =>
        intent_data.intent \in IntentLabels

\* the utterance, lowered, contains one of the words
Mentions(words) == any_in(words, str_lower(user_input))

\* C8: when the completion call fails the keyword table decides: next or
\* continue is NAVIGATION, repeat or again is REPEAT, stop, quit or end is
\* STOP, anything else is QUESTION with confidence 0.5
C8_FallbackTable ==
    (pc = "returned" /\ turn.fallback) =>
        IF Mentions({ <<"n","e","x","t">>, <<"c","o","n","t","i","n","u","e">> })
        THEN intent_data.intent = NAVIGATION
        ELSE IF Mentions({ <<"r","e","p","e","a","t">>, <<"a","g","a","i","n">> })
        THEN intent_data.intent = REPEAT
        ELSE IF Mentions({ <<"s","t","o","p">>, <<"q","u","i","t">>, <<"e","n","d">> })
        THEN intent_data.intent = STOP
        ELSE intent_data.intent = QUESTION /\ intent_data.confidence = 5

\* C9: an empty or whitespace-only entry is no input: nothing is classified,
\* the session is as it was and run() is back at the loop test
C9_EmptyInputIgnored ==
    turn.empty_input =>
        /\ pc = "top"
        /\ turn.classified = 0
        /\ Session = pre

\* C10: when the completion call that answers a question fails, the response
\* is the fixed message, the step index, the flags and the user model are
\* as before the turn, and the loop goes on
C10_AnswerFailureKeepsState ==
    turn.answer = "failed" =>
        /\ response = IF agent = "CookingAgent"
                      THEN TroubleMsg ELSE ProcessingTroubleMsg
        /\ current_step = pre.current_step
        /\ is_interrupted = pre.is_interrupted
        /\ is_completed = pre.is_completed
        /\ user_model = pre.user_model
        /\ pc = "top"
        /\ loop_condition(Session, recipe_steps)

\* the answer failed in a session that had already recorded an interaction
C10_Witness ==
    /\ agent = "CookingAgent"
    /\ turn.answer = "failed"
    /\ Len(user_model.session_questions) > 0
    /\ current_step > 0

\* C11: whenever CookingAgent awaits input the step announced last is the
\* current one, so a NAVIGATION turn that moved the index is followed by the
\* announcement of the new step; and when the new step mentions heat or
\* temperature the caution is given as well
C11_NewStepAnnounced ==
    /\ (agent = "CookingAgent" /\ pc = "listen")
          => announced_step = current_step
    /\ (/\ Handled(NAVIGATION)
        /\ current_step = pre.current_step + 1
        /\ needs_temperature_care(step_at(recipe_steps, current_step)))
          => response = TemperatureMsg

\* C12: a REPEAT turn and an INGREDIENTS turn leave the step index and both
\* flags as they were before the turn
C12_RepeatAndIngredientsKeepState ==
    (Handled(REPEAT) \/ Handled(INGREDIENTS)) =>
        /\ current_step = pre.current_step
        /\ is_interrupted = pre.is_interrupted
        /\ is_completed = pre.is_completed

\* a REPEAT turn on the last step of the three-step recipe
C12_Witness ==
    /\ Handled(REPEAT)
    /\ pc = "top"
    /\ Len(recipe_steps) = 3
    /\ current_step = 2

\* C13: a turn of CookingAgent whose intent is not handled directly and whose
\* completion call succeeds answers with the personalized text of the
\* completion followed by the "say next" suffix, records the interaction
\* once, and leaves the step index and both flags as they were
C13_AnswerTurn ==
    (agent = "CookingAgent" /\ turn.answer = "ok") =>
        /\ ai_intent_data.intent \notin DirectIntents
        /\ response =
              get_personalized_response(pre.user_model, str_strip(AnswerText),
                                        ai_intent_data.intent)
              \o SayNextSuffix
        /\ Len(user_model.session_questions)
              = Len(pre.user_model.session_questions) + 1
        /\ dict_sum(user_model.question_patterns)
              = dict_sum(pre.user_model.question_patterns) + 1
        /\ user_model =
              learn_from_interaction(pre.user_model, ai_intent_data.intent,
                                     pre.current_step, recipe_steps)
        /\ current_step = pre.current_step
        /\ is_interrupted = pre.is_interrupted
        /\ is_completed = pre.is_completed

\* a second question answered on the second step
C13_Witness ==
    /\ agent = "CookingAgent"
    /\ turn.answer = "ok"
    /\ current_step = 1
    /\ Len(user_model.session_questions) = 2

\* C14: the sum of the question_patterns counts is the number of utterances
\* classified so far in the session: it is 0 when the session starts and every
\* turn of CookingAgent whose utterance the service classified, whatever the
\* intent, adds one to it
C14_PatternsCountUtterances ==
    /\ (agent = "CookingAgent" /\ pc = "new")
          => dict_sum(user_model.question_patterns) = 0
    /\ (agent = "CookingAgent" /\ turn.handled /\ ~turn.fallback)
          => dict_sum(user_model.question_patterns)
                = dict_sum(pre.user_model.question_patterns) + 1

\* C15: an utterance is classified once in its turn, and the bookkeeping of
\* run() after the turn (the step is to be announced again unless there was
\* a response or the step was repeated) follows the intent that was acted on
C15_ClassifiedOncePerTurn ==
    turn.handled =>
        /\ turn.classified = 1
        /\ agent = "CookingAgent" =>
              (step_spoken
                  <=> ~(falsy(response) /\ ai_intent_data.intent # REPEAT))

\* run() of CookingAgent is at its first loop test
RunStarts == agent = "CookingAgent" /\ pc = "top" /\ turn = NewTurn

\* C16: every run() that follows a successful load_recipe() starts with the
\* step index 0 and both flags false, however the session before it on the
\* same agent object ended
C16_FreshSession ==
    RunStarts =>
        /\ current_step = 0
        /\ ~is_interrupted
        /\ ~is_completed

\* C17: a listen() that returned nothing never by itself moves the step
\* index; and when run_voice_guidance gives the session up on such a result
\* (the closing confirmation after the last step apart) a retry budget is
\* used up and interrupted is true, completed false
C17_NoInputNeverAdvances ==
    (agent = "VoiceAgent" /\ ~voice.heard) =>
        /\ current_step = pre.current_step
        /\ (pc = "returned" /\ ~voice.result) =>
              /\ is_interrupted
              /\ ~is_completed
              /\ \/ voice.retry_count >= max_retries
                 \/ voice.step_retry_count >= max_step_retries

\* the utterances of the scenario whose turn is over
Processed ==
    Len(Scenario) - Len(script)
        - (IF pc \in {"classify", "respond"} THEN 1 ELSE 0)

\* C18: on Toast with hello, next, how long does this take, next, stop:
\* "hello" leaves step and flags alone, the first "next" moves current_step
\* from 0 to 1, the timing question leaves step and flags alone, the second
\* "next" sets is_completed with current_step still 1, and the loop ends with
\* "stop" never taken from the user
C18_ToastScenario ==
    /\ current_step = (IF Processed <= 1 THEN 0 ELSE 1)
    /\ is_completed = (Processed = 4)
    /\ Processed < 4 => ~is_interrupted
    /\ Len(script) >= 1
    /\ pc = "done" => Processed = 4

C18_Witness ==
    /\ pc = "done"
    /\ script = << <<"s","t","o","p">> >>
    /\ is_completed
    /\ current_step = 1
    /\ Len(user_model.session_questions) = 2

\* 1 when c holds, else 0
inc(c) == IF c THEN 1 ELSE 0

\* learn_from_interaction has been called
Learned == pc = "learn" /\ user_model.session_questions # << >>

\* C19: a call of learn_from_interaction with an intent adds 1 to
\* question_patterns[intent] and leaves the other entries; adds 1 to
\* confusion_count iff the intent is CLARIFICATION, REPEAT or TROUBLESHOOTING;
\* appends one common_confusions entry iff it is CLARIFICATION; adds 1 to
\* quick_navigation iff NAVIGATION, to repeat_requests iff REPEAT, to
\* detailed_questions iff CLARIFICATION, TECHNIQUE, TIMING or TROUBLESHOOTING;
\* and no counter decreases
C19_CounterUpdates ==
    Learned =>
        LET old == pre.user_model
            new == user_model
            intent == ai_intent_data.intent
        IN  /\ DOMAIN new.question_patterns =
                   DOMAIN old.question_patterns \cup {intent}
            /\ \A k \in DOMAIN new.question_patterns :
                   new.question_patterns[k] =
                       dict_get(old.question_patterns, k, 0) + inc(k = intent)
            /\ new.confusion_count =
                   old.confusion_count
                       + inc(intent \in {CLARIFICATION, REPEAT, TROUBLESHOOTING})
            /\ Len(new.common_confusions) =
                   Len(old.common_confusions) + inc(intent = CLARIFICATION)
            /\ SubSeq(new.common_confusions, 1, Len(old.common_confusions))
                   = old.common_confusions
            /\ intent = CLARIFICATION =>
                   new.common_confusions[Len(new.common_confusions)].step
                       = current_step
            /\ new.interaction_patterns.quick_navigation =
                   old.interaction_patterns.quick_navigation
                       + inc(intent = NAVIGATION)
            /\ new.interaction_patterns.repeat_requests =
                   old.interaction_patterns.repeat_requests
                       + inc(intent = REPEAT)
            /\ new.interaction_patterns.detailed_questions =
                   old.interaction_patterns.detailed_questions
                       + inc(intent \in {CLARIFICATION, TECHNIQUE, TIMING,
                                         TROUBLESHOOTING})
            /\ \A f \in DOMAIN new.skill_indicators :
                   new.skill_indicators[f] >= old.skill_indicators[f]

C19_Witness ==
    /\ Learned
    /\ ai_intent_data.intent = TIMING
    /\ user_model.confusion_count = 2
    /\ Len(user_model.common_confusions) = 1
    /\ user_model.interaction_patterns.detailed_questions = 2
    /\ user_model.interaction_patterns.repeat_requests = 1

\* the log with its last two interactions in the other order
SwapLast(log) ==
    [i \in 1..Len(log) |->
        IF i = Len(log) THEN log[Len(log) - 1]
        ELSE IF i = Len(log) - 1 THEN log[Len(log)]
        ELSE log[i]]

\* the last two interactions have distinct intents and the same step
TwoAtOneStep ==
    LET q == user_model.session_questions
    IN  /\ Learned
        /\ Len(q) >= 2
        /\ q[Len(q)].intent # q[Len(q) - 1].intent
        /\ q[Len(q)].step = q[Len(q) - 1].step

\* the steps of the CLARIFICATION interactions of a log, in its order
ConfusionSteps(log) ==
    LET c == SelectSeq(log, LAMBDA e : e.intent = CLARIFICATION)
    IN  [i \in 1..Len(c) |-> c[i].step]

\* C20: when two interactions with distinct intents are recorded at the same
\* step, recording them in the other order gives the same question_patterns,
\* confusion_count and interaction_patterns; common_confusions holds its
\* entries in the order they were recorded
C20_OrderIndependentCounts ==
    TwoAtOneStep =>
        LET other == Replay(SwapLast(user_model.session_questions),
                            recipe_steps)
        IN  /\ user_model.question_patterns = other.question_patterns
            /\ user_model.confusion_count = other.confusion_count
            /\ user_model.interaction_patterns = other.interaction_patterns
            /\ [i \in 1..Len(user_model.common_confusions) |->
                    user_model.common_confusions[i].step]
                  = ConfusionSteps(user_model.session_questions)

C20_Witness ==
    /\ TwoAtOneStep
    /\ Len(user_model.session_questions) = 3
    /\ user_model.session_questions[1].intent = CLARIFICATION
    /\ user_model.session_questions[1].step = Len(recipe_steps)
    /\ user_model.session_questions[2].intent = REPEAT
    /\ user_model.session_questions[3].intent = CLARIFICATION
    /\ user_model.session_questions[3].step = 0
    /\ Len(user_model.common_confusions) = 2

\* the pace the rule gives for nav NAVIGATION interactions out of total, with
\* these counts of detailed questions and repeat requests
pace_rule(nav, total, detailed, repeats) ==
    IF 10 * nav > 6 * total /\ detailed < 3 THEN "fast"
    ELSE IF 10 * nav < 4 * total \/ detailed > 5 \/ repeats > 2 THEN "slow"
    ELSE "normal"

\* the interactions counted when the pace was recomputed
PacedTotal == dict_sum(pre.user_model.question_patterns)

\* C21: when the pace is recomputed with at least 3 interactions counted,
\* cooking_pace is fast when more than 0.6 of them are NAVIGATION and fewer
\* than 3 are detailed questions; otherwise slow when fewer than 0.4 are
\* NAVIGATION, or more than 5 are detailed questions, or more than 2 are
\* repeat requests; otherwise normal
C21_PaceRuleFromThree ==
    (pc = "paced" /\ PacedTotal >= 3) =>
        user_model.cooking_pace =
            pace_rule(dict_get(pre.user_model.question_patterns, NAVIGATION, 0),
                      PacedTotal,
                      pre.user_model.interaction_patterns.detailed_questions,
                      pre.user_model.interaction_patterns.repeat_requests)

\* C22: a recomputation of the pace with fewer than 3 interactions counted
\* leaves cooking_pace as it was
C22_NoEarlyPace ==
    (pc = "paced" /\ PacedTotal < 3) =>
        user_model.cooking_pace = pre.user_model.cooking_pace

C22_Witness ==
    /\ pc = "paced"
    /\ PacedTotal = 2
    /\ dict_get(pre.user_model.question_patterns, NAVIGATION, 0) = 2
    /\ pre.user_model.cooking_pace = "slow"
    /\ user_model.cooking_pace = "slow"

Built == pc = "built" /\ ~result.value.raised

\* the turns recorded in the session, oldest first
RecordedTurns ==
    IF agent = "CookingAgent" THEN user_model.session_questions
    ELSE cooking_context.questions_asked

\* the intent of a recorded turn
TurnIntent(e) == IF agent = "CookingAgent" THEN e.intent ELSE e.intent.intent

\* the confusion counter of the session
ConfusionCount ==
    IF agent = "CookingAgent" THEN user_model.confusion_count
    ELSE cooking_context.confusion_indicators

\* low up to 1, medium for 2 and 3, high above
confusion_label(n) ==
    IF n <= 1 THEN <<"l","o","w">> ELSE IF n <= 3 THEN <<"m","e","d","i","u","m">> ELSE <<"h","i","g","h">>

\* C24: a built context holds the steps that follow the current one, at most
\* 2 and in recipe order; the intents of the most recent recorded turns, at
\* most 3 and in their order; the current step as current_step + 1; and a
\* confusion label that is low for a confusion count up to 1, medium for 2
\* and 3, high above 3
C24_ContextContents ==
    Built =>
        LET c == result.value
            n == Len(RecordedTurns)
            k == IF n < 3 THEN n ELSE 3
            last == IF current_step + 3 < Len(recipe_steps)
                    THEN current_step + 3 ELSE Len(recipe_steps)
        IN  /\ c.next_steps = SubSeq(recipe_steps, current_step + 2, last)
            /\ Len(c.next_steps) <= 2
            /\ c.recent_intents =
                  [i \in 1..k |-> TurnIntent(RecordedTurns[n - k + i])]
            /\ c.progress_step = current_step + 1
            /\ str_lower(c.confusion_level) = confusion_label(ConfusionCount)

C26_HistoryBounded ==
    /\ Len(RecordedTurns) <= 5
    /\ agent = "IntelligentCookingAgent" =>
          Len(user_model.session_history) <= 5

\* load_recipe has been called
Loaded == result.op = "load_recipe"

\* the recipe as the agent holds it
Holds(r) ==
    /\ recipe_name = r.name
    /\ recipe_steps = r.steps
    /\ recipe_ingredients = r.ingredients

\* C27: a structured file and a flat file of the same recipe load to the same
\* recipe_name, recipe_steps and recipe_ingredients, which are the name, the
\* step texts and the ingredients listed in the file that was loaded
C27_BothFormatsLoadAlike ==
    (Loaded /\ result.value = "True") =>
        \A r \in {Toast, Pancakes} :
            files[result.file] \in {Structured(r), Flat(r)} => Holds(r)

\* a file load_recipe has to refuse: missing, no JSON, or with a steps list
\* holding an entry that is neither an object with a text nor a string
Unloadable(f) ==
    \/ f.kind # "json"
    \/ /\ "steps" \in DOMAIN f.data
       /\ \E i \in DOMAIN f.data.steps :
             ~has_text(f.data.steps[i]) /\ f.data.steps[i].kind # "str"

\* C28: load_recipe on a missing file, on a file that is no JSON document or
\* on a steps list with an entry that is neither an object with a text nor a
\* string returns False: it does not raise and does not return True
C28_UnloadableReturnsFalse ==
    (Loaded /\ result.filename \in FileNames
        /\ Unloadable(files[result.filename])) =>
        result.value = "False"

\* C29: when CookingAgent.load_recipe fails, recipe_name, recipe_steps,
\* recipe_ingredients and current_step are as before the call, and run()
\* ends there: no step is announced, nothing is listened to or classified
C29_FailedLoadLeavesNoSession ==
    (agent = "CookingAgent" /\ Loaded /\ result.value # "True") =>
        /\ RecipeFields = result.before.fields
        /\ current_step = result.before.current_step
        /\ pc \in {"new", "returned", "raised"}
        /\ ~step_spoken
        /\ announced_step = -1
        /\ user_input = None
        /\ intent_data = NoIntentData
        /\ turn = NewTurn

C29_Witness ==
    /\ agent = "CookingAgent"
    /\ Loaded
    /\ result.value = "False"
    /\ result.n = 2
    /\ result.filename = "steps.json"
    /\ files["steps.json"] = Malformed
    /\ Holds(Toast)

\* get_recipe_details was called with an id that save_recipe returned
LoadedById ==
    /\ result.op = "get_recipe_details"
    /\ result.recipe_id \in 1..Len(saved)

\* the step texts of the recipe that was saved and of the one that was loaded
saved_steps(recipe_data) ==
    IF "instructions" \in DOMAIN recipe_data
    THEN recipe_data.instructions ELSE recipe_data.steps
loaded_steps(value) ==
    IF database.module = "database"
    THEN [i \in 1..Len(value.steps) |-> py_item(value.steps[i], 1)]
    ELSE value.steps

\* the ingredients that were loaded: database.py hands out the row, whose
\* column 6 the callers read with json.loads
loaded_ingredients(value) ==
    IF database.module = "database"
    THEN json_loads(py_item(value.recipe, 6))
    ELSE Scanned(value.ingredients, 0)

\* C30: saving a recipe and then loading it by the returned id yields the same
\* step texts in the same order and the same ingredients list, whatever the
\* number of steps and ingredients
C30_SaveLoadRoundTrip ==
    LoadedById =>
        /\ result.out.found
        /\ ~result.out.raised
        /\ loaded_steps(result.out.value) = saved_steps(saved[result.recipe_id])
        /\ ~loaded_ingredients(result.out.value).error
        /\ loaded_ingredients(result.out.value).value
               = saved[result.recipe_id].ingredients

\* the first of two saved recipes, with three steps and three ingredients
\* that JSON escapes, is loaded after the second was saved
C30_Witness ==
    /\ LoadedById
    /\ Len(saved) = 2
    /\ result.recipe_id = 1
    /\ Len(saved_steps(saved[1])) = 3
    /\ Len(saved[1].ingredients) = 3
    /\ saved_steps(saved[2]) # saved_steps(saved[1])
    /\ saved[2].ingredients # saved[1].ingredients
    /\ result.out.found
    /\ Len(loaded_steps(result.out.value)) = 3

TemperatureQuestion == <<"w","h","a","t"," ","t","e","m","p","e","r","a","t","u","r","e"," ","s","h","o","u","l","d"," ","t","h","e"," ","o","v","e","n"," ","b","e">>

\* the turn is on the temperature question and the step the agent is at
\* contains "heat"
AskedAtHeat ==
    /\ agent = "CookingAgent"
    /\ script = <<TemperatureQuestion>>
    /\ str_in(<<"h","e","a","t">>, step_at(recipe_steps, pre.current_step))

\* C31: on "what temperature should the oven be", with "heat" in the text of
\* the current step, classify_intent returns CLARIFICATION whether the
\* completion call answers or fails, and the turn leaves the step index alone
C31_TemperatureIsClarification ==
    AskedAtHeat =>
        /\ pc = "respond" => intent_data.intent = CLARIFICATION
        /\ turn.handled =>
              /\ ai_intent_data.intent = CLARIFICATION
              /\ current_step = pre.current_step

\* the NAVIGATION intents handled so far in the session
Navigations == Len(script)

\* C32: in a CookingAgent session on a recipe of n >= 1 steps the session is
\* completed exactly when n NAVIGATION intents were handled: fewer never
\* complete it and none is handled after the n-th, whatever other turns
\* come between
C32_CompletedAtNthNavigation ==
    (agent = "CookingAgent" /\ pc # "new" /\ Len(recipe_steps) >= 1) =>
        /\ Navigations <= Len(recipe_steps)
        /\ is_completed <=> Navigations = Len(recipe_steps)

\* the three-step recipe was completed by its third NAVIGATION, with a
\* question answered on the way
C32_Witness ==
    /\ agent = "CookingAgent"
    /\ recipe_steps = Pancakes.steps
    /\ is_completed
    /\ Navigations = 3
    /\ Len(user_model.session_questions) >= 1
    /\ pc = "done"

\* C33: in every state of a CookingAgent session run through run() and
\* get_ai_response the cooking pace is "normal" and the quick_navigation and
\* repeat_requests counters are 0: NAVIGATION, REPEAT, STOP and INGREDIENTS
\* return before learn_from_interaction
C33_SessionNeverCountsNavigation ==
    agent = "CookingAgent" =>
        /\ user_model.cooking_pace = "normal"
        /\ user_model.interaction_patterns.quick_navigation = 0
        /\ user_model.interaction_patterns.repeat_requests = 0

\* a REPEAT was just handled on the third step, after two navigations and
\* two answered questions
C33_Witness ==
    /\ Handled(REPEAT)
    /\ current_step = 2
    /\ Len(user_model.session_questions) = 2

\* mark_recipe_cooked has just returned
Marked == result.op = "mark_recipe_cooked"

\* C36: marking a recipe as cooked never clears its favourite status: in the
\* history row of the user and the recipe liked stays true once it is, and
\* so does cooked
C36_MarkKeepsLiked ==
    Marked =>
        \A i \in 1..Len(result.before) :
            /\ result.before[i].liked => database.history[i].liked
            /\ result.before[i].cooked => database.history[i].cooked

\* C37: after mark_recipe_cooked(user, recipe), for a user and a recipe the
\* user can select, the recipe is among search_recipes(user_id = user,
\* search_type = 'cooked')
C37_MarkedIsFoundCooked ==
    Marked =>
        result.recipe_id
            \in search_recipes(database, << >>, result.user_id, "cooked")

\* start_voice_guidance_workflow of the application has returned
WorkflowOver(class) ==
    /\ result.op = "start_voice_guidance_workflow"
    /\ result.class = class
    /\ pc = "menu"

\* the session just run was completed: it began on a recipe not yet
\* completed and a NAVIGATION on the last step completed it
CompletedInSession == is_completed /\ ~result.begin.is_completed

\* C34: SuChefManager offers to mark the recipe as cooked if and only if the
\* guided session ended with the recipe completed, and not after a STOP, an
\* aborted text prompt or a session without a turn
C34_ManagerOffersIffCompleted ==
    WorkflowOver("SuChefManager") =>
        (result.offered <=> CompletedInSession)

\* C35: SuChef offers to mark the recipe as cooked, and saves a temporary
\* recipe, only if the session just run was itself completed, never for a
\* completion in an earlier session on the same agent
C35_OfferOnlyForThisSession ==
    WorkflowOver("SuChef") =>
        /\ result.offered => CompletedInSession
        /\ result.saved_temp => CompletedInSession

\* run_voice_guidance returned false from the loop of a step because
\* listen() returned None
EndedForLackOfInput ==
    /\ agent = "VoiceAgent"
    /\ pc = "returned"
    /\ ~voice.result
    /\ ~voice.heard
    /\ current_step >= 1

\* C38: the loop of a step ends the session for lack of input only after 5
\* listen() calls in a row returned None within that step; a recognized
\* utterance between the failures starts the count again
C38_FiveConsecutiveFailures ==
    EndedForLackOfInput => voice.silent >= max_step_retries

\* the budget of a step is used up by the failures of the step, in a row or
\* not
StepBudgetIsCumulative ==
    EndedForLackOfInput =>
        /\ voice.step_retry_count = max_step_retries
        /\ voice.silent >= 1

\* run_voice_guidance has returned; voice.result is its return value
VoiceReturned ==
    /\ agent = "VoiceAgent"
    /\ pc \in {"returned", "no_recipe"}

\* C39: a run of run_voice_guidance started right after load_recipe, with
\* speech available, returns true if and only if is_interrupted is false at
\* the return, and returns true only after every step of the recipe was
\* passed in order
C39_TrueIffNotInterrupted ==
    VoiceReturned =>
        /\ voice.result <=> ~is_interrupted
        /\ voice.result => current_step = Len(recipe_steps)

\* on a recipe_data that is not empty the return value and the flag agree
LoadedReturnAgrees ==
    (agent = "VoiceAgent" /\ pc = "returned") =>
        /\ voice.result <=> ~is_interrupted
        /\ voice.result => current_step = Len(recipe_steps)

\* the steps are entered one after the other
StepsInOrder ==
    [][agent = "VoiceAgent" =>
          current_step' \in {0, current_step, current_step + 1}]_vars

====
